---- MODULE Spec2Model ----
(***************************************************************************)
(* varlog: the backward, chunked line-reversal engine of the /read         *)
(* endpoint (chunkReader, reverser, writeLines), the read handler's check  *)
(* for regular files, the name check of both endpoints and the entry       *)
(* filter of the /read and /list endpoints.                                *)
(*                                                                         *)
(* Spec: one run of writeLines.  SpecList: listFile and the filter.        *)
(* SpecChunk: chunkReader.read called directly.  SpecEngine: the reverser  *)
(* called directly.  SpecPath: SetParamName and validateParams.            *)
(* SpecHandler: the read handler from checkRegularFile on.  SpecTwo: two   *)
(* concurrent read requests.  SpecDisposition: selectContentDisposition.   *)
(* SpecRequest: the read handler from ExtractParams on.  SpecAppend: one   *)
(* run of writeLines on a file another process appends to.  SpecClose:     *)
(* writeLines with its file handle.  SpecEngineLoop: the reverser under a  *)
(* caller that goes on calling.  SpecEngineAgain: the reverser under a     *)
(* caller that may repeat lines().                                         *)
(*                                                                         *)
(* Bytes are integers.  A file is a sequence of bytes.  Errors are the     *)
(* strings "nil", "EOF" (io.EOF), "EIO" (any other I/O error of ReadAt),   *)
(* "ESTAT" (file.Stat failed) and "ErrTooLong" (bufio.ErrTooLong).         *)
(***************************************************************************)
EXTENDS Integers, Sequences, FiniteSets, TLC

\* ------------------------------------------------------------------ bounds
\* Longest file content explored, in bytes.
MaxLen == 4
\* Largest chunk size explored.
MaxChunk == 4
\* Largest count parameter explored.
MaxCount == 2
\* Longest filter parameter and longest name parameter explored (list endpoint).
MaxParam == 2
\* Stand-in for bufio.MaxScanTokenSize (64 * 1024 in the Go library), scaled
\* down with the files: a line of this many bytes or more makes the
\* bufio.Scanner stop with ErrTooLong.
MaxScanTokenSize == 3
\* Calls a direct caller of the chunk reader makes beyond one per byte of the
\* file, and scan() calls a direct caller of the reverser makes after scan()
\* has returned false.
MaxCalls == 3
\* Longest name parameter explored for the path check.
MaxName == 5
\* Longest file of each of the concurrent requests.
MaxLenTwo == 2
\* Longest value of the count parameter explored, in bytes.
MaxCountLen == 2
\* Most bytes appended to a file during one request.
MaxAppend == 2
\* Longest file of the requests and callers followed to their return.
MaxLenLoop == 3

\* ------------------------------------------------------------------ bytes
NL == 10
CR == 13
DASH == 45
SLASH == 47
\* http.StatusOK, http.StatusBadRequest
StatusOK == 200
StatusBadRequest == 400
\* Thresholds of selectContentDisposition.
attachFileSize == 100000
attachLineCount == 10000
DOT == 46
PLUS == 43
\* the digits 0 and 9
DIGIT0 == 48
DIGIT9 == 57
\* 97 is the letter a, 98 the letter b
Alphabet == {97, NL, CR}
ParamAlphabet == {97, 98, DASH}

Min(a, b) == IF a < b THEN a ELSE b

SeqsUpTo(S, n) == UNION {[1..k -> S] : k \in 0..n}

Reverse(s) == [i \in 1..Len(s) |-> s[Len(s) + 1 - i]]

\* strings.Contains(s, t)
Contains(s, t) ==
  \E i \in 0..(Len(s) - Len(t)) : SubSeq(s, i + 1, i + Len(t)) = t

\* ------------------------------------------------------- app.Properties
\* The filter case of ExtractParams: a leading '-' sets filterOmit and is
\* stripped from the text.
ExtractFilter(value) ==
  IF Len(value) > 0 /\ value[1] = DASH
    THEN [filterOmit |-> TRUE, filterText |-> Tail(value)]
    ELSE [filterOmit |-> FALSE, filterText |-> value]

\* Properties after ExtractParams for a request with the given filter and
\* count parameters and no content-disposition parameter, and the configured
\* chunk size.
ExtractParams(filter, count, chunk) ==
  [chunkSize |-> chunk,
   filterOmit |-> ExtractFilter(filter).filterOmit,
   filterText |-> ExtractFilter(filter).filterText,
   paramContentDisposition |-> "",
   paramCount |-> count]

\* Mutant of FilterAllowsEntry: the omit flag of a negative filter is ignored.
FilterAllowsEntry_ignoresOmit(p, name) ==
  IF p.filterText = <<>> THEN TRUE ELSE Contains(name, p.filterText)

FilterAllowsEntry(p, name) ==
  IF p.filterText = <<>> THEN TRUE
  ELSE IF Contains(name, p.filterText) THEN ~p.filterOmit
  ELSE p.filterOmit

\* ---------------------------------------------------------- chunkReader
\* file.ReadAt(b, off) on an unchanging file f with len(b) = n: the bytes
\* available at off, and io.EOF when fewer than n are returned.
ReadAt(f, n, off) ==
  LET k == IF off >= Len(f) THEN 0 ELSE Min(n, Len(f) - off)
  IN [data |-> SubSeq(f, off + 1, off + k),
      err |-> IF k < n THEN "EOF" ELSE "nil"]

\* What the operating system may answer to ReadAt: the read above, or an
\* I/O error after any number of the available bytes.
ReadAtOutcomes(f, n, off) ==
  {ReadAt(f, n, off)} \cup
  {[data |-> SubSeq(ReadAt(f, n, off).data, 1, k), err |-> "EIO"] :
     k \in 0..Len(ReadAt(f, n, off).data)}

\* Mutant of FirstOffset: the case of an exactly chunked file is missing.
FirstOffset_noExact(fileLength, chunkSize) ==
  IF fileLength = 0 THEN 0
  ELSE fileLength - (fileLength % chunkSize)

FirstOffset(fileLength, chunkSize) ==
  IF fileLength = 0 THEN 0
  ELSE IF fileLength % chunkSize = 0 THEN fileLength - chunkSize
  ELSE fileLength - (fileLength % chunkSize)

newChunkReader(p, f) ==
  [fileLength |-> Len(f),
   chunkSize |-> p.chunkSize,
   nextOffset |-> FirstOffset(Len(f), p.chunkSize),
   lastError |-> "nil"]

peekEOF(c) == c.fileLength = 0 \/ c.nextOffset < 0

\* Mutant of chunkRead: the check for an empty file is missing.
chunkRead_noEmptyCheck(c, n, io) ==
  IF c.nextOffset < 0
    THEN [c |-> [c EXCEPT !.lastError = "EOF"], data |-> <<>>, err |-> "EOF",
          readAt |-> FALSE]
  ELSE IF c.lastError # "nil"
    THEN [c |-> c, data |-> <<>>, err |-> c.lastError, readAt |-> FALSE]
  ELSE LET err == IF Len(io.data) > 0 /\ io.err = "EOF" THEN "nil" ELSE io.err
       IN [c |-> [c EXCEPT !.nextOffset = @ - n, !.lastError = err],
           data |-> io.data, err |-> err, readAt |-> TRUE]

\* Mutant of chunkRead: an exhausted reader starts over at the end of the
\* file.
chunkRead_rewinds(c, n, io) ==
  IF c.fileLength = 0 \/ c.nextOffset < 0
    THEN [c |-> [c EXCEPT !.lastError = "EOF",
                          !.nextOffset = FirstOffset(c.fileLength, c.chunkSize)],
          data |-> <<>>, err |-> "EOF", readAt |-> FALSE]
  ELSE IF c.lastError # "nil"
    THEN [c |-> c, data |-> <<>>, err |-> c.lastError, readAt |-> FALSE]
  ELSE LET err == IF Len(io.data) > 0 /\ io.err = "EOF" THEN "nil" ELSE io.err
       IN [c |-> [c EXCEPT !.nextOffset = @ - n, !.lastError = err],
           data |-> io.data, err |-> err, readAt |-> TRUE]

\* Mutant of chunkRead: the offset is backed up by the number of bytes read.
chunkRead_backsUpByCount(c, n, io) ==
  IF c.fileLength = 0 \/ c.nextOffset < 0
    THEN [c |-> [c EXCEPT !.lastError = "EOF"], data |-> <<>>, err |-> "EOF",
          readAt |-> FALSE]
  ELSE IF c.lastError # "nil"
    THEN [c |-> c, data |-> <<>>, err |-> c.lastError, readAt |-> FALSE]
  ELSE LET err == IF Len(io.data) > 0 /\ io.err = "EOF" THEN "nil" ELSE io.err
       IN [c |-> [c EXCEPT !.nextOffset = IF Len(io.data) = 0 THEN -1
                                          ELSE @ - Len(io.data),
                           !.lastError = err],
           data |-> io.data, err |-> err, readAt |-> TRUE]

\* Mutant of chunkRead: a read that failed does not move the offset.
chunkRead_keepsOffsetOnError(c, n, io) ==
  IF c.fileLength = 0 \/ c.nextOffset < 0
    THEN [c |-> [c EXCEPT !.lastError = "EOF"], data |-> <<>>, err |-> "EOF",
          readAt |-> FALSE]
  ELSE IF c.lastError # "nil"
    THEN [c |-> c, data |-> <<>>, err |-> c.lastError, readAt |-> FALSE]
  ELSE LET err == IF Len(io.data) > 0 /\ io.err = "EOF" THEN "nil" ELSE io.err
       IN [c |-> [c EXCEPT !.nextOffset = IF err = "nil" THEN @ - n ELSE @,
                           !.lastError = err],
           data |-> io.data, err |-> err, readAt |-> TRUE]

\* Mutant of chunkRead: io.EOF that came with data is passed on.
chunkRead_keepsEOF(c, n, io) ==
  IF c.fileLength = 0 \/ c.nextOffset < 0
    THEN [c |-> [c EXCEPT !.lastError = "EOF"], data |-> <<>>, err |-> "EOF",
          readAt |-> FALSE]
  ELSE IF c.lastError # "nil"
    THEN [c |-> c, data |-> <<>>, err |-> c.lastError, readAt |-> FALSE]
  ELSE [c |-> [c EXCEPT !.nextOffset = @ - n, !.lastError = io.err],
        data |-> io.data, err |-> io.err, readAt |-> TRUE]

\* Mutant of chunkRead: the offset is backed up by two chunks.
chunkRead_skipsChunk(c, n, io) ==
  IF c.fileLength = 0 \/ c.nextOffset < 0
    THEN [c |-> [c EXCEPT !.lastError = "EOF"], data |-> <<>>, err |-> "EOF",
          readAt |-> FALSE]
  ELSE IF c.lastError # "nil"
    THEN [c |-> c, data |-> <<>>, err |-> c.lastError, readAt |-> FALSE]
  ELSE LET err == IF Len(io.data) > 0 /\ io.err = "EOF" THEN "nil" ELSE io.err
       IN [c |-> [c EXCEPT !.nextOffset = @ - 2 * n, !.lastError = err],
           data |-> io.data, err |-> err, readAt |-> TRUE]

\* Mutant of chunkRead: the reader counts as exhausted at offset 0 already.
chunkRead_stopsAtZero(c, n, io) ==
  IF c.fileLength = 0 \/ c.nextOffset <= 0
    THEN [c |-> [c EXCEPT !.lastError = "EOF"], data |-> <<>>, err |-> "EOF",
          readAt |-> FALSE]
  ELSE IF c.lastError # "nil"
    THEN [c |-> c, data |-> <<>>, err |-> c.lastError, readAt |-> FALSE]
  ELSE LET err == IF Len(io.data) > 0 /\ io.err = "EOF" THEN "nil" ELSE io.err
       IN [c |-> [c EXCEPT !.nextOffset = @ - n, !.lastError = err],
           data |-> io.data, err |-> err, readAt |-> TRUE]

\* chunkReader.read(b) with len(b) = n; io is the answer of file.ReadAt,
\* used only when the call reaches it.
chunkRead(c, n, io) ==
  IF c.fileLength = 0 \/ c.nextOffset < 0
    THEN [c |-> [c EXCEPT !.lastError = "EOF"], data |-> <<>>, err |-> "EOF",
          readAt |-> FALSE]
  ELSE IF c.lastError # "nil"
    THEN [c |-> c, data |-> <<>>, err |-> c.lastError, readAt |-> FALSE]
  ELSE LET err == IF Len(io.data) > 0 /\ io.err = "EOF" THEN "nil" ELSE io.err
       IN [c |-> [c EXCEPT !.nextOffset = @ - n, !.lastError = err],
           data |-> io.data, err |-> err, readAt |-> TRUE]

\* ------------------------------------------------------- bufio.Scanner
dropCR(data) ==
  IF Len(data) > 0 /\ data[Len(data)] = CR
    THEN SubSeq(data, 1, Len(data) - 1) ELSE data

\* bytes.IndexByte(data[i:], '\n'): the index of the first newline at or
\* after i, 0 when there is none.
IndexNL(data, i) ==
  IF \E j \in i..Len(data) : data[j] = NL
    THEN CHOOSE j \in i..Len(data) :
           data[j] = NL /\ \A k \in i..(j - 1) : data[k] # NL
    ELSE 0

\* Mutant of ScanFrom: a scanner error discards the tokens found before it.
RECURSIVE ScanFrom_dropsTokens(_, _, _)
ScanFrom_dropsTokens(data, i, acc) ==
  IF i > Len(data) THEN [tokens |-> acc, err |-> "nil"]
  ELSE LET j == IndexNL(data, i)
           last == IF j = 0 THEN Len(data) ELSE j - 1
           raw == SubSeq(data, i, last)
       IN IF Len(raw) >= MaxScanTokenSize
            THEN [tokens |-> <<>>, err |-> "ErrTooLong"]
            ELSE ScanFrom_dropsTokens(data, (IF j = 0 THEN Len(data) ELSE j) + 1,
                                      Append(acc, [text |-> dropCR(raw), start |-> i]))

\* Mutant of ScanFrom: data that ends in a newline yields one more, empty,
\* token.
RECURSIVE ScanFrom_emptyLast(_, _, _)
ScanFrom_emptyLast(data, i, acc) ==
  IF i > Len(data)
    THEN [tokens |-> IF Len(data) > 0 /\ data[Len(data)] = NL
                       THEN Append(acc, [text |-> <<>>, start |-> i])
                       ELSE acc,
          err |-> "nil"]
  ELSE LET j == IndexNL(data, i)
           last == IF j = 0 THEN Len(data) ELSE j - 1
           raw == SubSeq(data, i, last)
       IN IF Len(raw) >= MaxScanTokenSize
            THEN [tokens |-> acc, err |-> "ErrTooLong"]
            ELSE ScanFrom_emptyLast(data, (IF j = 0 THEN Len(data) ELSE j) + 1,
                                    Append(acc, [text |-> dropCR(raw), start |-> i]))

\* The tokens bufio.Scanner (split function ScanLines) yields for data from
\* index i on, each with the index its bytes start at, and the scanner's
\* error.  A line of MaxScanTokenSize bytes or more ends the scan with
\* ErrTooLong, the tokens before it are kept.
RECURSIVE ScanFrom(_, _, _)
ScanFrom(data, i, acc) ==
  IF i > Len(data) THEN [tokens |-> acc, err |-> "nil"]
  ELSE LET j == IndexNL(data, i)
           last == IF j = 0 THEN Len(data) ELSE j - 1
           raw == SubSeq(data, i, last)
       IN IF Len(raw) >= MaxScanTokenSize
            THEN [tokens |-> acc, err |-> "ErrTooLong"]
            ELSE ScanFrom(data, (IF j = 0 THEN Len(data) ELSE j) + 1,
                          Append(acc, [text |-> dropCR(raw), start |-> i]))

ScanLines(data) == ScanFrom(data, 1, <<>>)

\* -------------------------------------------------------------- reverser
newReverser(p, f) ==
  [chunk |-> <<>>, lastError |-> "nil", lineSuffix |-> <<>>]

\* Mutant of reverserErr: io.EOF is not turned into nil.
reverserErr_raw(rv) == rv.lastError

reverserErr(rv) == IF rv.lastError = "EOF" THEN "nil" ELSE rv.lastError

\* Mutant of saveLineSuffix: the first line is held even at the start of the
\* file.
saveLineSuffix_alwaysHolds(c, lines) ==
  IF Len(lines) = 0 THEN [lineSuffix |-> <<>>, lines |-> lines]
  ELSE [lineSuffix |-> IF lines[1].text = <<>> THEN <<NL>> ELSE lines[1].text,
        lines |-> Tail(lines)]

\* Mutant of saveLineSuffix: an empty first line is held as an empty suffix.
saveLineSuffix_emptySuffix(c, lines) ==
  IF peekEOF(c) THEN [lineSuffix |-> <<>>, lines |-> lines]
  ELSE IF Len(lines) = 0 THEN [lineSuffix |-> <<>>, lines |-> lines]
  ELSE [lineSuffix |-> lines[1].text, lines |-> Tail(lines)]

\* saveLineSuffix: lines are records [text, pos]; pos is the file offset the
\* line starts at (bookkeeping of the model, the code only holds the text).
saveLineSuffix(c, lines) ==
  IF peekEOF(c) THEN [lineSuffix |-> <<>>, lines |-> lines]
  ELSE IF Len(lines) = 0 THEN [lineSuffix |-> <<>>, lines |-> lines]
  ELSE [lineSuffix |-> IF lines[1].text = <<>> THEN <<NL>> ELSE lines[1].text,
        lines |-> Tail(lines)]

\* Mutant of reverserLines: the lines of the batch are not reversed.
reverserLines_noReverse(rv, c, p) ==
  LET sc == ScanLines(rv.chunk)
      base == c.nextOffset + p.chunkSize
      toks == [i \in 1..Len(sc.tokens) |->
                 [text |-> sc.tokens[i].text,
                  pos |-> base + sc.tokens[i].start - 1]]
      sv == saveLineSuffix(c, toks)
  IN [r |-> [rv EXCEPT !.lastError = IF sc.err # "nil" THEN sc.err ELSE @,
                       !.lineSuffix = sv.lineSuffix],
      lines |-> sv.lines]

\* Mutant of reverserLines: the chunk is used up by the split.
reverserLines_consumesChunk(rv, c, p) ==
  LET sc == ScanLines(rv.chunk)
      base == c.nextOffset + p.chunkSize
      toks == [i \in 1..Len(sc.tokens) |->
                 [text |-> sc.tokens[i].text,
                  pos |-> base + sc.tokens[i].start - 1]]
      sv == saveLineSuffix(c, toks)
  IN [r |-> [rv EXCEPT !.lastError = IF sc.err # "nil" THEN sc.err ELSE @,
                       !.lineSuffix = sv.lineSuffix,
                       !.chunk = <<>>],
      lines |-> Reverse(sv.lines)]

\* reverser.lines(): c is the chunk reader after the read of this chunk, so
\* the chunk was read at offset c.nextOffset + chunk size.
reverserLines(rv, c, p) ==
  LET sc == ScanLines(rv.chunk)
      base == c.nextOffset + p.chunkSize
      toks == [i \in 1..Len(sc.tokens) |->
                 [text |-> sc.tokens[i].text,
                  pos |-> base + sc.tokens[i].start - 1]]
      sv == saveLineSuffix(c, toks)
  IN [r |-> [rv EXCEPT !.lastError = IF sc.err # "nil" THEN sc.err ELSE @,
                       !.lineSuffix = sv.lineSuffix],
      lines |-> Reverse(sv.lines)]

\* Mutant of reverserScan: the test of the reverser's own last error is
\* missing, every call goes to the chunk reader.
reverserScan_noGuard(rv, c, p, io) ==
  LET rd == chunkRead(c, p.chunkSize, io)
  IN [r |-> [rv EXCEPT !.chunk = rd.data \o rv.lineSuffix,
                       !.lastError = rd.err],
      c |-> rd.c, ok |-> rd.err = "nil", readAt |-> rd.readAt,
      called |-> TRUE]

\* Mutant of reverserScan: the held suffix is put in front of the chunk.
reverserScan_suffixFirst(rv, c, p, io) ==
  IF rv.lastError # "nil"
    THEN [r |-> rv, c |-> c, ok |-> FALSE, readAt |-> FALSE, called |-> FALSE]
  ELSE LET rd == chunkRead(c, p.chunkSize, io)
       IN [r |-> [rv EXCEPT !.chunk = rv.lineSuffix \o rd.data,
                            !.lastError = rd.err],
           c |-> rd.c, ok |-> rd.err = "nil", readAt |-> rd.readAt,
           called |-> TRUE]

\* reverser.scan(); io is the answer of file.ReadAt, used only when the
\* chunk reader reaches it.  called: the chunk reader's read was called.
reverserScan(rv, c, p, io) ==
  IF rv.lastError # "nil"
    THEN [r |-> rv, c |-> c, ok |-> FALSE, readAt |-> FALSE, called |-> FALSE]
  ELSE LET rd == chunkRead(c, p.chunkSize, io)
       IN [r |-> [rv EXCEPT !.chunk = rd.data \o rv.lineSuffix,
                            !.lastError = rd.err],
           c |-> rd.c, ok |-> rd.err = "nil", readAt |-> rd.readAt,
           called |-> TRUE]

\* ------------------------------------------------------------ writeLines
\* Mutant of writeBatch: the count test is "totalLines > count".
RECURSIVE writeBatch_lateStop(_, _, _)
writeBatch_lateStop(p, lines, written) ==
  IF lines = <<>> THEN [out |-> written, stop |-> FALSE]
  ELSE IF ~FilterAllowsEntry(p, Head(lines).text)
    THEN writeBatch_lateStop(p, Tail(lines), written)
  ELSE IF p.paramCount > 0 /\ Len(written) + 1 > p.paramCount
    THEN [out |-> Append(written, Head(lines)), stop |-> TRUE]
  ELSE writeBatch_lateStop(p, Tail(lines), Append(written, Head(lines)))

\* Mutant of writeBatch: the loop never leaves through "break countLabel", it
\* only stops writing.
RECURSIVE writeBatch_noBreak(_, _, _)
writeBatch_noBreak(p, lines, written) ==
  IF lines = <<>> THEN [out |-> written, stop |-> FALSE]
  ELSE IF ~FilterAllowsEntry(p, Head(lines).text)
    THEN writeBatch_noBreak(p, Tail(lines), written)
  ELSE IF p.paramCount > 0 /\ Len(written) >= p.paramCount
    THEN [out |-> written, stop |-> FALSE]
  ELSE writeBatch_noBreak(p, Tail(lines), Append(written, Head(lines)))

\* Mutant of writeBatch: the count is tested before the filter, so a
\* rejected line counts against the limit.
RECURSIVE writeBatch_countsRejected(_, _, _, _)
writeBatch_countsRejected(p, lines, written, seen) ==
  IF lines = <<>> THEN [out |-> written, stop |-> FALSE]
  ELSE IF p.paramCount > 0 /\ seen + 1 >= p.paramCount
    THEN [out |-> IF FilterAllowsEntry(p, Head(lines).text)
                    THEN Append(written, Head(lines)) ELSE written,
          stop |-> TRUE]
  ELSE writeBatch_countsRejected(p, Tail(lines),
         IF FilterAllowsEntry(p, Head(lines).text)
           THEN Append(written, Head(lines)) ELSE written, seen + 1)

writeBatch_countBeforeFilter(p, lines, written) ==
  writeBatch_countsRejected(p, lines, written, Len(written))

\* The inner loop of writeLines over one batch: filter, write, count.
\* stop is TRUE when the loop left through "break countLabel".
RECURSIVE writeBatch(_, _, _)
writeBatch(p, lines, written) ==
  IF lines = <<>> THEN [out |-> written, stop |-> FALSE]
  ELSE IF ~FilterAllowsEntry(p, Head(lines).text)
    THEN writeBatch(p, Tail(lines), written)
  ELSE IF p.paramCount > 0 /\ Len(written) + 1 >= p.paramCount
    THEN [out |-> Append(written, Head(lines)), stop |-> TRUE]
  ELSE writeBatch(p, Tail(lines), Append(written, Head(lines)))

\* The writeLines loop run to completion as a function of the file: every
\* ReadAt succeeds, no filter, no count.  lines: the lines of all batches in
\* delivery order; readsAt[i]: the number of positional reads issued when
\* line i is delivered; reads: the number of positional reads of the whole
\* traversal; err: the value of r.err() at the end.
RECURSIVE traverse(_, _, _, _, _, _, _)
traverse(f, p, c, rv, acc, at, n) ==
  LET s == reverserScan(rv, c, p, ReadAt(f, p.chunkSize, c.nextOffset))
  IN IF ~s.ok
       THEN [lines |-> acc, readsAt |-> at, reads |-> n, err |-> reverserErr(s.r)]
       ELSE LET l == reverserLines(s.r, s.c, p)
            IN traverse(f, p, s.c, l.r, acc \o l.lines,
                        at \o [i \in 1..Len(l.lines) |-> n + 1], n + 1)

FullTraversal(f, cs) ==
  LET p == ExtractParams(<<>>, 0, cs)
  IN traverse(f, p, newChunkReader(p, f), newReverser(p, f), <<>>, <<>>, 0)

\* The texts of a sequence of delivered lines.
Texts(ls) == [i \in 1..Len(ls) |-> ls[i].text]

\* ------------------------------------------------------------ list endpoint
\* pathRoot, "/var/log".
Root == <<47, 118, 97, 114, 47, 108, 111, 103>>

\* path.Join(root, name) for a name of letters and dashes (no slash, no dot):
\* the root itself for the empty name, root/name otherwise.
JoinRoot(name) == IF name = <<>> THEN Root ELSE Root \o <<47>> \o name

\* list.extractParams followed by validateParams for such a name.
listExtractParams(name, filter) ==
  [name |-> name,
   filterText |-> IF Len(filter) > 0 /\ filter[1] = DASH THEN Tail(filter) ELSE filter,
   filterOmit |-> Len(filter) > 0 /\ filter[1] = DASH,
   rootedPath |-> JoinRoot(name)]

filterIncludesEntry(lp, name) ==
  IF lp.filterText = <<>> THEN TRUE
  ELSE IF Contains(name, lp.filterText) THEN ~lp.filterOmit
  ELSE lp.filterOmit

\* listFile: the metadata list and the error.  data starts as the empty,
\* non-nil slice []*metadata{}.
listFile(lp) ==
  IF ~filterIncludesEntry(lp, lp.name)
    THEN [data |-> [isNil |-> FALSE, items |-> <<>>], err |-> "nil"]
    ELSE [data |-> [isNil |-> FALSE,
                    items |-> <<[Name |-> lp.rootedPath, Type |-> "file"]>>],
          err |-> "nil"]

\* ----------------------------------------------------------- the name check
\* strings.HasPrefix(s, prefix)
HasPrefix(s, prefix) ==
  Len(s) >= Len(prefix) /\ SubSeq(s, 1, Len(prefix)) = prefix

\* The elements of a path between its slashes, empty ones included.
RECURSIVE SplitSlash(_)
SplitSlash(p) ==
  IF \E j \in 1..Len(p) : p[j] = SLASH
    THEN LET j == CHOOSE k \in 1..Len(p) :
                    p[k] = SLASH /\ \A m \in 1..(k - 1) : p[m] # SLASH
         IN <<SubSeq(p, 1, j - 1)>> \o SplitSlash(SubSeq(p, j + 1, Len(p)))
    ELSE <<p>>

RECURSIVE JoinSlash(_)
JoinSlash(elems) ==
  IF elems = <<>> THEN <<>>
  ELSE IF Len(elems) = 1 THEN elems[1]
  ELSE elems[1] \o <<SLASH>> \o JoinSlash(Tail(elems))

\* The elements path.Clean keeps: empty and "." elements go, ".." takes the
\* element before it away, a ".." with nothing before it goes in a rooted
\* path and stays in a relative one.
RECURSIVE CleanElems(_, _, _)
CleanElems(elems, kept, rooted) ==
  IF elems = <<>> THEN kept
  ELSE LET c == Head(elems)
       IN IF c = <<>> \/ c = <<DOT>>
            THEN CleanElems(Tail(elems), kept, rooted)
          ELSE IF c = <<DOT, DOT>>
            THEN IF kept # <<>> /\ kept[Len(kept)] # <<DOT, DOT>>
                   THEN CleanElems(Tail(elems), SubSeq(kept, 1, Len(kept) - 1), rooted)
                 ELSE IF rooted THEN CleanElems(Tail(elems), kept, rooted)
                 ELSE CleanElems(Tail(elems), Append(kept, c), rooted)
          ELSE CleanElems(Tail(elems), Append(kept, c), rooted)

\* path.Clean
Clean(p) ==
  IF p = <<>> THEN <<DOT>>
  ELSE LET rooted == p[1] = SLASH
           kept == CleanElems(SplitSlash(p), <<>>, rooted)
       IN IF rooted THEN <<SLASH>> \o JoinSlash(kept)
          ELSE IF kept = <<>> THEN <<DOT>>
          ELSE JoinSlash(kept)

\* path.Join(root, name): empty elements are ignored, the rest joined with a
\* slash and cleaned.
pathJoin(root, name) ==
  IF root = <<>> /\ name = <<>> THEN <<>>
  ELSE IF name = <<>> THEN Clean(root)
  ELSE IF root = <<>> THEN Clean(name)
  ELSE Clean(root \o <<SLASH>> \o name)

\* Mutant of SetParamName: the prefix tested is the root without the slash.
SetParamName_bareRoot(p, name) ==
  LET joined == pathJoin(p.root, name)
  IN IF joined # p.root /\ ~HasPrefix(joined, p.root)
       THEN [props |-> [p EXCEPT !.paramName = name], err |-> "Invalid name parameter"]
       ELSE [props |-> [p EXCEPT !.paramName = name, !.rootedPath = joined],
             err |-> "nil"]

\* Properties.SetParamName on properties p = [root, paramName, rootedPath].
SetParamName(p, name) ==
  LET joined == pathJoin(p.root, name)
  IN IF joined # p.root /\ ~HasPrefix(joined, p.root \o <<SLASH>>)
       THEN [props |-> [p EXCEPT !.paramName = name], err |-> "Invalid name parameter"]
       ELSE [props |-> [p EXCEPT !.paramName = name, !.rootedPath = joined],
             err |-> "nil"]

\* list's validateParams on properties lp = [name, rootedPath], with
\* app.Root() = root.
validateParams(lp, root) ==
  LET joined == pathJoin(root, lp.name)
  IN IF joined # root /\ ~HasPrefix(joined, root \o <<SLASH>>)
       THEN [props |-> lp, err |-> "Invalid name parameter"]
       ELSE [props |-> [lp EXCEPT !.rootedPath = joined], err |-> "nil"]

\* ------------------------------------------------------- ExtractParams loop
\* The value of a string of decimal digits.
RECURSIVE DecValue(_)
DecValue(digits) ==
  IF digits = <<>> THEN 0
  ELSE 10 * DecValue(SubSeq(digits, 1, Len(digits) - 1))
         + (digits[Len(digits)] - DIGIT0)

\* strconv.Atoi for short strings: an optional sign, then one or more digits.
Atoi(s) ==
  LET signed == Len(s) > 0 /\ s[1] \in {DASH, PLUS}
      digits == IF signed THEN Tail(s) ELSE s
  IN IF digits = <<>>
          \/ \E i \in 1..Len(digits) : digits[i] < DIGIT0 \/ digits[i] > DIGIT9
       THEN [n |-> 0, err |-> "invalid syntax"]
       ELSE [n |-> IF signed /\ s[1] = DASH THEN 0 - DecValue(digits)
                   ELSE DecValue(digits),
             err |-> "nil"]

\* Mutant of ExtractKey: an unknown key is skipped.
ExtractKey_skipsUnknown(p, key, form) ==
  CASE key = "content-disposition" ->
         IF form.disposition \in {"", "inline", "attachment"}
           THEN [props |-> [p EXCEPT !.paramContentDisposition = form.disposition],
                 err |-> "nil"]
           ELSE [props |-> p, err |-> "Invalid value"]
    [] key = "count" ->
         IF form.count = <<>>
           THEN [props |-> [p EXCEPT !.paramCount = 0], err |-> "nil"]
           ELSE [props |-> [p EXCEPT !.paramCount = Atoi(form.count).n],
                 err |-> IF Atoi(form.count).err = "nil" THEN "nil"
                         ELSE "Invalid conversion"]
    [] key = "filter" ->
         [props |-> [p EXCEPT !.filterOmit = ExtractFilter(form.filter).filterOmit,
                              !.filterText = ExtractFilter(form.filter).filterText],
          err |-> "nil"]
    [] key = "name" ->
         [props |-> SetParamName(p, form.name).props,
          err |-> IF SetParamName(p, form.name).err = "nil" THEN "nil"
                  ELSE "Invalid conversion"]
    [] OTHER -> [props |-> p, err |-> "nil"]

\* One round of the loop of ExtractParams over request.Form, for one key
\* of the form: the properties afterwards and the error returned, "nil"
\* when the loop goes on.
ExtractKey(p, key, form) ==
  CASE key = "content-disposition" ->
         IF form.disposition \in {"", "inline", "attachment"}
           THEN [props |-> [p EXCEPT !.paramContentDisposition = form.disposition],
                 err |-> "nil"]
           ELSE [props |-> p, err |-> "Invalid value"]
    [] key = "count" ->
         IF form.count = <<>>
           THEN [props |-> [p EXCEPT !.paramCount = 0], err |-> "nil"]
           ELSE [props |-> [p EXCEPT !.paramCount = Atoi(form.count).n],
                 err |-> IF Atoi(form.count).err = "nil" THEN "nil"
                         ELSE "Invalid conversion"]
    [] key = "filter" ->
         [props |-> [p EXCEPT !.filterOmit = ExtractFilter(form.filter).filterOmit,
                              !.filterText = ExtractFilter(form.filter).filterText],
          err |-> "nil"]
    [] key = "name" ->
         [props |-> SetParamName(p, form.name).props,
          err |-> IF SetParamName(p, form.name).err = "nil" THEN "nil"
                  ELSE "Invalid conversion"]
    [] OTHER -> [props |-> p, err |-> "Parameter invalid"]

\* app.NewProperties: a copy of the application's properties.
NewProperties(chunk) ==
  [chunkSize |-> chunk, filterOmit |-> FALSE, filterText |-> <<>>,
   paramContentDisposition |-> "", paramCount |-> 0, paramName |-> <<>>,
   root |-> Root, rootedPath |-> <<>>]

\* ------------------------------------------------------ the read handler
\* What the rooted path can be in the file system.
Kinds == {"regular", "dir", "special", "missing",
          "linkToRegular", "linkToDir", "linkToSpecial", "linkDangling"}

\* os.Stat(path): symbolic links are followed, the answer describes the
\* file the path leads to.
osStat(k) ==
  CASE k \in {"regular", "linkToRegular"} -> [err |-> "nil", mode |-> "regular"]
    [] k \in {"dir", "linkToDir"} -> [err |-> "nil", mode |-> "dir"]
    [] k \in {"special", "linkToSpecial"} -> [err |-> "nil", mode |-> "special"]
    [] OTHER -> [err |-> "ENOENT", mode |-> "none"]

checkRegularFile(k) ==
  LET st == osStat(k)
  IN IF st.err # "nil" THEN "Path invalid"
     ELSE IF st.mode = "dir" THEN "Read directory not allowed"
     ELSE IF st.mode = "regular" THEN "nil"
     ELSE "Read special file not allowed"

\* writeLines run to its return as a function of the file and the
\* properties, every ReadAt succeeding: the lines written.
RECURSIVE writeLinesFrom(_, _, _, _, _)
writeLinesFrom(f, p, c, rv, written) ==
  LET s == reverserScan(rv, c, p, ReadAt(f, p.chunkSize, c.nextOffset))
  IN IF ~s.ok THEN written
     ELSE LET l == reverserLines(s.r, s.c, p)
              w == writeBatch(p, l.lines, written)
          IN IF w.stop THEN w.out
             ELSE writeLinesFrom(f, p, s.c, l.r, w.out)

writeLines(f, p) ==
  writeLinesFrom(f, p, newChunkReader(p, f), newReverser(p, f), <<>>)

\* http.Error(writer, text, code) on a response whose header has or has not
\* gone out with an earlier write of the body: the status of a response
\* already begun stays, the error text is written either way.
httpError(rs, code, begun) ==
  [rs EXCEPT !.status = IF begun THEN StatusOK ELSE code,
             !.errorText = TRUE]

\* The response Handler leaves behind: err is what checkRegularFile or
\* writeLines returned, wrote tells whether writeLines wrote a line.
handlerResponse(rs, err, wrote) ==
  IF err # "nil" THEN httpError(rs, StatusBadRequest, wrote)
  ELSE [rs EXCEPT !.status = StatusOK]

\* Mutant of selectContentDisposition: a count equal to attachLineCount still
\* counts as small.
selectContentDisposition_countInclusive(p, f) ==
  CASE p.paramContentDisposition = "inline" -> "none"
    [] p.paramContentDisposition = "attachment" -> "attachment"
    [] OTHER ->
         IF p.paramCount > 0 /\ p.paramCount <= attachLineCount THEN "none"
         ELSE IF f.stat # "nil" THEN "none"
         ELSE IF f.size < attachFileSize THEN "none"
         ELSE "attachment"

\* Mutant of selectContentDisposition: no header when a filter is given.
selectContentDisposition_usesFilter(p, f) ==
  CASE p.filterText # <<>> -> "none"
    [] p.paramContentDisposition = "inline" -> "none"
    [] p.paramContentDisposition = "attachment" -> "attachment"
    [] OTHER ->
         IF p.paramCount > 0 /\ p.paramCount < attachLineCount THEN "none"
         ELSE IF f.stat # "nil" THEN "none"
         ELSE IF f.size < attachFileSize THEN "none"
         ELSE "attachment"

\* selectContentDisposition: the Content-Disposition header added to the
\* response, "none" when none is added.  f is the open file as file.Stat
\* sees it: [stat: the error of Stat, size].
selectContentDisposition(p, f) ==
  CASE p.paramContentDisposition = "inline" -> "none"
    [] p.paramContentDisposition = "attachment" -> "attachment"
    [] OTHER ->
         IF p.paramCount > 0 /\ p.paramCount < attachLineCount THEN "none"
         ELSE IF f.stat # "nil" THEN "none"
         ELSE IF f.size < attachFileSize THEN "none"
         ELSE "attachment"

\* ------------------------------------------------------------------ state
VARIABLES
  file,        \* content of the file being read
  props,       \* app.Properties of the read request
  chunker,     \* the chunkReader
  r,           \* the reverser
  pc,          \* position of writeLines: "open", "scan", "lines", "done"; "idle": no read request
  out,         \* the lines written to the response, each [text, pos]
  retErr,      \* the error writeLines returns
  exit,        \* how writeLines left: "" (running), "stat", "scan" (scan() returned false), "count"
  reads,       \* the positional reads issued so far, each [off, n]
  batches,     \* number of batches taken with lines()
  ioFailed,    \* TRUE once Stat or ReadAt answered with an error
  splitFailed, \* TRUE once the bufio.Scanner of lines() ended with an error
  lreq,        \* the list request: [name, filter]
  lprops,      \* list.properties of the list request
  ldata,       \* what listFile returned: [data, err]
  lallowed,    \* the answer of app's FilterAllowsEntry for the name under the same filter: "yes", "no"; "unset"
  lpc,         \* position of the list request: "idle", "extract", "apply", "done"
  kind,        \* what the resolved path of the read request is in the file system
  hist,        \* the calls a direct caller of the engine made, each with its results
  reqs,        \* the concurrent read requests, each with its own objects
  req,         \* the request being parsed: its form and the keys not yet visited
  resp         \* the HTTP response: status (0: not sent), Content-Disposition, error text

readVars == <<file, props, chunker, r, pc, out, retErr, exit, reads, batches,
              ioFailed, splitFailed>>
listVars == <<lreq, lprops, ldata, lallowed, lpc>>
otherVars == <<kind, hist, reqs, req, resp>>
vars == <<file, props, chunker, r, pc, out, retErr, exit, reads, batches,
          ioFailed, splitFailed, lreq, lprops, ldata, lallowed, lpc,
          kind, hist, reqs, req, resp>>

Files == SeqsUpTo(Alphabet, MaxLen)
Filters == {<<>>, <<97>>, <<DASH, 97>>, <<DASH>>}
Counts == (-1)..MaxCount
ChunkSizes == 1..MaxChunk
Params == SeqsUpTo(ParamAlphabet, MaxParam)
\* The name of a regular file is not empty (the empty name is the root directory).
Names == Params \ {<<>>}

NoChunker == [fileLength |-> 0, chunkSize |-> 1, nextOffset |-> 0, lastError |-> "nil"]
NoReverser == [chunk |-> <<>>, lastError |-> "nil", lineSuffix |-> <<>>]
NoListProps == [name |-> <<>>, filterText |-> <<>>, filterOmit |-> FALSE, rootedPath |-> <<>>]
NoListData == [data |-> [isNil |-> TRUE, items |-> <<>>], err |-> "unset"]
NoRequest == [form |-> <<>>, left |-> {}]
NoResponse == [status |-> 0, disposition |-> "none", errorText |-> FALSE]

ReadIdle(position) ==
  /\ chunker = NoChunker
  /\ r = NoReverser
  /\ pc = position
  /\ out = <<>>
  /\ retErr = "nil"
  /\ exit = ""
  /\ reads = <<>>
  /\ batches = 0
  /\ ioFailed = FALSE
  /\ splitFailed = FALSE

ListIdle(position) ==
  /\ lprops = NoListProps
  /\ ldata = NoListData
  /\ lallowed = "unset"
  /\ lpc = position

\* A regular file, no direct caller of the engine, no concurrent requests.
OtherIdle ==
  /\ kind = "regular"
  /\ hist = <<>>
  /\ reqs = <<>>
  /\ req = NoRequest
  /\ resp = NoResponse

\* A read request: any file, filter, count and chunk size.
Init ==
  /\ file \in Files
  /\ \E f \in Filters, n \in Counts, cs \in ChunkSizes :
       props = ExtractParams(f, n, cs)
  /\ ReadIdle("open")
  /\ lreq = [name |-> <<>>, filter |-> <<>>]
  /\ ListIdle("idle")
  /\ OtherIdle

\* writeLines up to the loop: the file is open, selectContentDisposition
\* adds its header or not (st is what its file.Stat answers), newReverser
\* succeeds.
Open ==
  /\ pc = "open"
  /\ \E st \in {"nil", "ESTAT"} :
       resp' = [resp EXCEPT !.disposition =
                  selectContentDisposition(props, [stat |-> st, size |-> Len(file)])]
  /\ chunker' = newChunkReader(props, file)
  /\ r' = newReverser(props, file)
  /\ pc' = "scan"
  /\ UNCHANGED <<file, props, out, retErr, exit, reads, batches, ioFailed, splitFailed>>
  /\ UNCHANGED listVars
  /\ UNCHANGED <<kind, hist, reqs, req>>

\* Mutant of OpenStatFails: the chunk reader is handed out although
\* file.Stat failed, and the loop is entered.
OpenStatFails_partial ==
  /\ pc = "open"
  /\ \E st \in {"nil", "ESTAT"} :
       resp' = [resp EXCEPT !.disposition =
                  selectContentDisposition(props, [stat |-> st, size |-> Len(file)])]
  /\ chunker' = newChunkReader(props, file)
  /\ r' = newReverser(props, file)
  /\ pc' = "scan"
  /\ retErr' = "ESTAT"
  /\ exit' = "stat"
  /\ ioFailed' = TRUE
  /\ UNCHANGED <<file, props, out, reads, batches, splitFailed>>
  /\ UNCHANGED listVars
  /\ UNCHANGED <<kind, hist, reqs, req>>

\* writeLines up to the loop: selectContentDisposition as in Open, then
\* file.Stat fails in newChunkReader, no reverser.
OpenStatFails ==
  /\ pc = "open"
  /\ \E st \in {"nil", "ESTAT"} :
       resp' = [resp EXCEPT !.disposition =
                  selectContentDisposition(props, [stat |-> st, size |-> Len(file)])]
  /\ pc' = "done"
  /\ retErr' = "ESTAT"
  /\ exit' = "stat"
  /\ ioFailed' = TRUE
  /\ UNCHANGED <<file, props, chunker, r, out, reads, batches, splitFailed>>
  /\ UNCHANGED listVars
  /\ UNCHANGED <<kind, hist, reqs, req>>

\* The loop condition r.scan().  io is what file.ReadAt answers if asked.
Scan ==
  /\ pc = "scan"
  /\ \E io \in IF chunker.nextOffset >= 0
                 THEN ReadAtOutcomes(file, props.chunkSize, chunker.nextOffset)
                 ELSE {[data |-> <<>>, err |-> "EOF"]} :
       LET s == reverserScan(r, chunker, props, io)
       IN /\ r' = s.r
          /\ chunker' = s.c
          /\ reads' = IF s.readAt
                        THEN Append(reads, [off |-> chunker.nextOffset,
                                            n |-> Len(io.data)])
                        ELSE reads
          /\ ioFailed' = (ioFailed \/ (s.readAt /\ io.err = "EIO"))
          /\ pc' = IF s.ok THEN "lines" ELSE "done"
          /\ exit' = IF s.ok THEN exit ELSE "scan"
          /\ retErr' = IF s.ok THEN retErr ELSE reverserErr(s.r)
  /\ UNCHANGED <<file, props, out, batches, splitFailed>>
  /\ UNCHANGED listVars
  /\ UNCHANGED otherVars

\* The loop body: r.lines() and the inner loop over the batch.
Lines ==
  /\ pc = "lines"
  /\ LET l == reverserLines(r, chunker, props)
         w == writeBatch(props, l.lines, out)
     IN /\ r' = l.r
        /\ out' = w.out
        /\ pc' = IF w.stop THEN "done" ELSE "scan"
        /\ exit' = IF w.stop THEN "count" ELSE exit
        /\ retErr' = IF w.stop THEN reverserErr(l.r) ELSE retErr
  /\ splitFailed' = (splitFailed \/ ScanLines(r.chunk).err # "nil")
  /\ batches' = batches + 1
  /\ UNCHANGED <<file, props, chunker, reads, ioFailed>>
  /\ UNCHANGED listVars
  /\ UNCHANGED otherVars

Next == Open \/ OpenStatFails \/ Scan \/ Lines

Spec == Init /\ [][Next]_vars

\* A list request for a regular file: any name and any filter parameter.
InitList ==
  /\ file = <<>>
  /\ props = ExtractParams(<<>>, 0, 1)
  /\ ReadIdle("idle")
  /\ lreq \in [name : Names, filter : Params]
  /\ ListIdle("extract")
  /\ OtherIdle

\* extractParams and validateParams of the list handler.
ListExtract ==
  /\ lpc = "extract"
  /\ lprops' = listExtractParams(lreq.name, lreq.filter)
  /\ lpc' = "apply"
  /\ UNCHANGED <<lreq, ldata, lallowed>>
  /\ UNCHANGED readVars
  /\ UNCHANGED otherVars

\* collectMetadata on a regular file: listFile.
ListFile ==
  /\ lpc = "apply"
  /\ ldata = NoListData
  /\ ldata' = listFile(lprops)
  /\ lpc' = IF lallowed = "unset" THEN "apply" ELSE "done"
  /\ UNCHANGED <<lreq, lprops, lallowed>>
  /\ UNCHANGED readVars
  /\ UNCHANGED otherVars

\* The read endpoint's filter on the same entry: ExtractParams, then
\* FilterAllowsEntry.
ReadFilter ==
  /\ lpc = "apply"
  /\ lallowed = "unset"
  /\ lallowed' = IF FilterAllowsEntry(ExtractParams(lreq.filter, 0, 1), lreq.name)
                   THEN "yes" ELSE "no"
  /\ lpc' = IF ldata = NoListData THEN "apply" ELSE "done"
  /\ UNCHANGED <<lreq, lprops, ldata>>
  /\ UNCHANGED readVars
  /\ UNCHANGED otherVars

NextList == ListExtract \/ ListFile \/ ReadFilter

SpecList == InitList /\ [][NextList]_vars

\* ------------------------------------------- the chunk reader, called directly
\* A chunk reader just constructed over any file, with any chunk size; its
\* caller goes on calling read(b), len(b) = chunk size, whatever it returns.
InitChunk ==
  /\ file \in Files
  /\ \E cs \in ChunkSizes : props = ExtractParams(<<>>, 0, cs)
  /\ chunker = newChunkReader(props, file)
  /\ r = NoReverser
  /\ pc = "chunk"
  /\ out = <<>> /\ retErr = "nil" /\ exit = ""
  /\ reads = <<>> /\ batches = 0
  /\ ioFailed = FALSE /\ splitFailed = FALSE
  /\ lreq = [name |-> <<>>, filter |-> <<>>]
  /\ ListIdle("idle")
  /\ OtherIdle

\* One call of chunkReader.read.  hist records the offset the reader stood at,
\* whether it was exhausted, and what the call returned and did.
ChunkRead ==
  /\ pc = "chunk"
  /\ Len(hist) < chunker.fileLength + MaxCalls
  /\ \E io \in IF chunker.nextOffset >= 0
                 THEN ReadAtOutcomes(file, props.chunkSize, chunker.nextOffset)
                 ELSE {[data |-> <<>>, err |-> "EOF"]} :
       LET rd == chunkRead(chunker, props.chunkSize, io)
       IN /\ chunker' = rd.c
          /\ reads' = IF rd.readAt
                        THEN Append(reads, [off |-> chunker.nextOffset,
                                            n |-> Len(io.data)])
                        ELSE reads
          /\ ioFailed' = (ioFailed \/ (rd.readAt /\ io.err = "EIO"))
          /\ hist' = Append(hist, [op |-> "read", off |-> chunker.nextOffset,
                                   atEOF |-> peekEOF(chunker),
                                   offAfter |-> rd.c.nextOffset,
                                   n |-> Len(rd.data), err |-> rd.err,
                                   readAt |-> rd.readAt])
  /\ UNCHANGED <<file, props, r, pc, out, retErr, exit, batches, splitFailed>>
  /\ UNCHANGED listVars
  /\ UNCHANGED <<kind, reqs, req, resp>>

NextChunk == ChunkRead

SpecChunk == InitChunk /\ [][NextChunk]_vars

\* ------------------------------------------------ the reverser, called directly
\* A file about to be handed to newReverser; the caller then calls scan(),
\* lines() after a scan() that returned true, and err(), and goes on calling
\* scan() and err() after scan() has returned false.
InitEngine ==
  /\ file \in Files
  /\ \E cs \in ChunkSizes : props = ExtractParams(<<>>, 0, cs)
  /\ ReadIdle("new")
  /\ lreq = [name |-> <<>>, filter |-> <<>>]
  /\ ListIdle("idle")
  /\ OtherIdle

\* The scan() calls made since scan() first returned false.
ScansAfterStop ==
  Len(SelectSeq(hist, LAMBDA h : h.op = "scan" /\ ~h.ok))

\* newReverser: the chunk reader is set up from file.Stat, nothing is read.
EngineNew ==
  /\ pc = "new"
  /\ chunker' = newChunkReader(props, file)
  /\ r' = newReverser(props, file)
  /\ pc' = "ready"
  /\ hist' = Append(hist, [op |-> "new", ok |-> TRUE, readAt |-> FALSE,
                           readErr |-> "none", err |-> "nil", lines |-> <<>>,
                           ioErr |-> "none", n |-> 0, off |-> 0,
                           chunk |-> <<>>, suffix |-> <<>>, atEOF |-> FALSE])
  /\ UNCHANGED <<file, props, out, retErr, exit, reads, batches, ioFailed, splitFailed>>
  /\ UNCHANGED listVars
  /\ UNCHANGED <<kind, reqs, req, resp>>

\* One call of scan().  readErr is what the chunk reader returned to it,
\* "none" when the chunk reader was not called; ioErr and n are what
\* file.ReadAt at off returned to the chunk reader, "none" and 0 when it was
\* not called; chunk and suffix are the reverser's afterwards.
EngineScan ==
  /\ pc \in {"ready", "stopped"}
  /\ ScansAfterStop < MaxCalls
  /\ \E io \in IF chunker.nextOffset >= 0
                 THEN ReadAtOutcomes(file, props.chunkSize, chunker.nextOffset)
                 ELSE {[data |-> <<>>, err |-> "EOF"]} :
       LET s == reverserScan(r, chunker, props, io)
       IN /\ r' = s.r
          /\ chunker' = s.c
          /\ reads' = IF s.readAt
                        THEN Append(reads, [off |-> chunker.nextOffset,
                                            n |-> Len(io.data)])
                        ELSE reads
          /\ ioFailed' = (ioFailed \/ (s.readAt /\ io.err = "EIO"))
          /\ pc' = IF s.ok THEN "batch" ELSE "stopped"
          /\ hist' = Append(hist,
                       [op |-> "scan", ok |-> s.ok, readAt |-> s.readAt,
                        readErr |-> IF s.called THEN s.r.lastError ELSE "none",
                        err |-> reverserErr(s.r), lines |-> <<>>,
                        ioErr |-> IF s.readAt THEN io.err ELSE "none",
                        n |-> IF s.readAt THEN Len(io.data) ELSE 0,
                        off |-> chunker.nextOffset,
                        chunk |-> s.r.chunk, suffix |-> s.r.lineSuffix,
                        atEOF |-> peekEOF(s.c)])
  /\ UNCHANGED <<file, props, out, retErr, exit, batches, splitFailed>>
  /\ UNCHANGED listVars
  /\ UNCHANGED <<kind, reqs, req, resp>>

\* Mutant of EngineLines: lines() reads the next chunk ahead of the caller.
EngineLines_readsAhead ==
  /\ pc = "batch"
  /\ LET l == reverserLines(r, chunker, props)
     IN /\ r' = l.r
        /\ out' = out \o l.lines
        /\ hist' = Append(hist, [op |-> "lines", ok |-> TRUE, readAt |-> TRUE,
                                 readErr |-> "none", err |-> reverserErr(l.r),
                                 lines |-> l.lines,
                                 ioErr |-> "none", n |-> 0,
                                 off |-> chunker.nextOffset + props.chunkSize,
                                 chunk |-> r.chunk, suffix |-> l.r.lineSuffix,
                                 atEOF |-> peekEOF(chunker)])
  /\ reads' = IF chunker.nextOffset >= 0
                THEN Append(reads, [off |-> chunker.nextOffset, n |-> 0])
                ELSE reads
  /\ splitFailed' = (splitFailed \/ ScanLines(r.chunk).err # "nil")
  /\ batches' = batches + 1
  /\ pc' = "ready"
  /\ UNCHANGED <<file, props, chunker, retErr, exit, ioFailed>>
  /\ UNCHANGED listVars
  /\ UNCHANGED <<kind, reqs, req, resp>>

\* One call of lines(), after a scan() that returned true.  chunk is what
\* it split, read at off; suffix is what it held back; atEOF is peekEOF.
EngineLines ==
  /\ pc = "batch"
  /\ LET l == reverserLines(r, chunker, props)
     IN /\ r' = l.r
        /\ out' = out \o l.lines
        /\ hist' = Append(hist, [op |-> "lines", ok |-> TRUE, readAt |-> FALSE,
                                 readErr |-> "none", err |-> reverserErr(l.r),
                                 lines |-> l.lines,
                                 ioErr |-> "none", n |-> 0,
                                 off |-> chunker.nextOffset + props.chunkSize,
                                 chunk |-> r.chunk, suffix |-> l.r.lineSuffix,
                                 atEOF |-> peekEOF(chunker)])
  /\ splitFailed' = (splitFailed \/ ScanLines(r.chunk).err # "nil")
  /\ batches' = batches + 1
  /\ pc' = "ready"
  /\ UNCHANGED <<file, props, chunker, retErr, exit, reads, ioFailed>>
  /\ UNCHANGED listVars
  /\ UNCHANGED <<kind, reqs, req, resp>>

\* One call of err(), after scan() has returned false.
EngineErr ==
  /\ pc = "stopped"
  /\ hist[Len(hist)].op # "err"
  /\ retErr' = reverserErr(r)
  /\ hist' = Append(hist, [op |-> "err", ok |-> TRUE, readAt |-> FALSE,
                           readErr |-> "none", err |-> reverserErr(r),
                           lines |-> <<>>,
                           ioErr |-> "none", n |-> 0, off |-> 0,
                           chunk |-> <<>>, suffix |-> <<>>, atEOF |-> FALSE])
  /\ UNCHANGED <<file, props, chunker, r, pc, out, exit, reads, batches,
                 ioFailed, splitFailed>>
  /\ UNCHANGED listVars
  /\ UNCHANGED <<kind, reqs, req, resp>>

NextEngine == EngineNew \/ EngineScan \/ EngineLines \/ EngineErr

SpecEngine == InitEngine /\ [][NextEngine]_vars

\* The reverser called directly on a short file of letters and newlines, by
\* a caller whose loop goes on: as long as a call is possible one is made.
InitEngineLoop ==
  /\ file \in SeqsUpTo({97, NL}, MaxLenLoop)
  /\ \E cs \in ChunkSizes : props = ExtractParams(<<>>, 0, cs)
  /\ ReadIdle("new")
  /\ lreq = [name |-> <<>>, filter |-> <<>>]
  /\ ListIdle("idle")
  /\ OtherIdle

SpecEngineLoop == InitEngineLoop /\ [][NextEngine]_vars /\ WF_vars(NextEngine)

\* One more call of lines() right after a call of lines(), before the next
\* scan(): the caller gets a batch again, nothing more is written.
EngineLinesAgain ==
  /\ pc = "ready"
  /\ hist[Len(hist)].op = "lines"
  /\ hist[Len(hist) - 1].op # "lines"
  /\ LET l == reverserLines(r, chunker, props)
     IN /\ r' = l.r
        /\ hist' = Append(hist, [op |-> "lines", ok |-> TRUE, readAt |-> FALSE,
                                 readErr |-> "none", err |-> reverserErr(l.r),
                                 lines |-> l.lines,
                                 ioErr |-> "none", n |-> 0,
                                 off |-> chunker.nextOffset + props.chunkSize,
                                 chunk |-> r.chunk, suffix |-> l.r.lineSuffix,
                                 atEOF |-> peekEOF(chunker)])
  /\ UNCHANGED <<file, props, chunker, pc, out, retErr, exit, reads, batches,
                 ioFailed, splitFailed>>
  /\ UNCHANGED listVars
  /\ UNCHANGED <<kind, reqs, req, resp>>

NextEngineAgain == NextEngine \/ EngineLinesAgain

\* The reverser called directly by a caller that may call lines() twice for
\* a chunk.
SpecEngineAgain == InitEngineLoop /\ [][NextEngineAgain]_vars

\* ------------------------------------------------------------ the name check
\* The roots explored: the standard one, a short one and a relative one.
Roots == {Root, <<SLASH, 97>>, <<97>>}
PathNames == SeqsUpTo({SLASH, DOT, 97}, MaxName)

\* A request with any name parameter, under any of the roots.
InitPath ==
  /\ file = <<>>
  /\ props = ExtractParams(<<>>, 0, 1)
  /\ ReadIdle("idle")
  /\ lreq \in [name : PathNames, filter : {<<>>}, root : Roots]
  /\ ListIdle("path")
  /\ OtherIdle

\* The read endpoint's check of the name: SetParamName on fresh properties.
PathSetParamName ==
  /\ lpc = "path"
  /\ \A i \in 1..Len(hist) : hist[i].op # "SetParamName"
  /\ LET res == SetParamName([root |-> lreq.root, paramName |-> <<>>,
                               rootedPath |-> <<>>], lreq.name)
     IN hist' = Append(hist, [op |-> "SetParamName", err |-> res.err,
                              rootedPath |-> res.props.rootedPath])
  /\ UNCHANGED listVars
  /\ UNCHANGED readVars
  /\ UNCHANGED <<kind, reqs, req, resp>>

\* The list endpoint's check of the name: validateParams.
PathValidateParams ==
  /\ lpc = "path"
  /\ \A i \in 1..Len(hist) : hist[i].op # "validateParams"
  /\ LET res == validateParams([name |-> lreq.name, rootedPath |-> <<>>],
                                 lreq.root)
     IN hist' = Append(hist, [op |-> "validateParams", err |-> res.err,
                              rootedPath |-> res.props.rootedPath])
  /\ UNCHANGED listVars
  /\ UNCHANGED readVars
  /\ UNCHANGED <<kind, reqs, req, resp>>

NextPath == PathSetParamName \/ PathValidateParams

SpecPath == InitPath /\ [][NextPath]_vars

\* ------------------------------------------------------- the read handler
\* A read request whose rooted path is anything the file system can hold;
\* only a regular file (reached directly or through a link) has content.
InitHandler ==
  /\ kind \in Kinds
  /\ file \in IF kind \in {"regular", "linkToRegular"} THEN Files ELSE {<<>>}
  /\ \E cs \in ChunkSizes : props = ExtractParams(<<>>, 0, cs)
  /\ ReadIdle("check")
  /\ lreq = [name |-> <<>>, filter |-> <<>>]
  /\ ListIdle("idle")
  /\ hist = <<>>
  /\ reqs = <<>>
  /\ req = NoRequest
  /\ resp = NoResponse

\* Handler: checkRegularFile, and http.Error when it fails.
CheckRegularFile ==
  /\ pc = "check"
  /\ LET err == checkRegularFile(kind)
     IN /\ pc' = IF err = "nil" THEN "open" ELSE "done"
        /\ retErr' = err
        /\ exit' = IF err = "nil" THEN exit ELSE "check"
  /\ UNCHANGED <<file, props, chunker, r, out, reads, batches, ioFailed, splitFailed>>
  /\ UNCHANGED listVars
  /\ UNCHANGED otherVars

\* Handler returns: http.Error when checkRegularFile or writeLines returned
\* an error, and the response is complete.
HandlerReturn ==
  /\ pc = "done"
  /\ resp.status = 0
  /\ resp' = handlerResponse(resp, retErr, out # <<>>)
  /\ UNCHANGED readVars
  /\ UNCHANGED listVars
  /\ UNCHANGED <<kind, hist, reqs, req>>

NextHandler ==
  CheckRegularFile \/ Open \/ OpenStatFails \/ Scan \/ Lines \/ HandlerReturn

SpecHandler == InitHandler /\ [][NextHandler]_vars

\* --------------------------------------------------- concurrent requests
Requests == {1, 2}
TwoFiles == SeqsUpTo({97, NL}, MaxLenTwo)

\* Two read requests, each with its own file content (the same or not), its
\* own copy of the properties (the configured chunk size, its own count),
\* and its own chunk reader and reverser once writeLines has made them.
InitTwo ==
  /\ file = <<>>
  /\ \E cs \in 1..MaxLenTwo :
       /\ props = ExtractParams(<<>>, 0, cs)
       /\ reqs \in [Requests ->
                      {[file |-> f, props |-> ExtractParams(<<>>, n, cs),
                        chunker |-> NoChunker, r |-> NoReverser,
                        pc |-> "open", out |-> <<>>] :
                         f \in TwoFiles, n \in {0, 1}}]
  /\ ReadIdle("idle")
  /\ lreq = [name |-> <<>>, filter |-> <<>>]
  /\ ListIdle("idle")
  /\ kind = "regular"
  /\ hist = <<>>
  /\ req = NoRequest
  /\ resp = NoResponse

\* Request i: writeLines up to the loop.
TwoOpen(i) ==
  /\ reqs[i].pc = "open"
  /\ reqs' = [reqs EXCEPT ![i].chunker = newChunkReader(reqs[i].props, reqs[i].file),
                           ![i].r = newReverser(reqs[i].props, reqs[i].file),
                           ![i].pc = "scan"]
  /\ UNCHANGED readVars
  /\ UNCHANGED listVars
  /\ UNCHANGED <<kind, hist, req, resp>>

\* Mutant of TwoScan: there is one chunk reader, that of request 1, and
\* every request reads through it.
TwoScan_sharedChunker(i) ==
  /\ reqs[i].pc = "scan"
  /\ LET q == reqs[i]
         s == reverserScan(q.r, reqs[1].chunker, q.props,
                           ReadAt(q.file, q.props.chunkSize, reqs[1].chunker.nextOffset))
     IN reqs' = [[reqs EXCEPT ![i].r = s.r,
                              ![i].pc = IF s.ok THEN "lines" ELSE "done"]
                   EXCEPT ![1].chunker = s.c]
  /\ UNCHANGED readVars
  /\ UNCHANGED listVars
  /\ UNCHANGED <<kind, hist, req, resp>>

\* Request i: the loop condition r.scan(), on its own reverser, chunk reader
\* and file.
TwoScan(i) ==
  /\ reqs[i].pc = "scan"
  /\ LET q == reqs[i]
         s == reverserScan(q.r, q.chunker, q.props,
                           ReadAt(q.file, q.props.chunkSize, q.chunker.nextOffset))
     IN reqs' = [reqs EXCEPT ![i].r = s.r,
                             ![i].chunker = s.c,
                             ![i].pc = IF s.ok THEN "lines" ELSE "done"]
  /\ UNCHANGED readVars
  /\ UNCHANGED listVars
  /\ UNCHANGED <<kind, hist, req, resp>>

\* Request i: the loop body, r.lines() and the inner loop over the batch.
TwoLines(i) ==
  /\ reqs[i].pc = "lines"
  /\ LET q == reqs[i]
         l == reverserLines(q.r, q.chunker, q.props)
         w == writeBatch(q.props, l.lines, q.out)
     IN reqs' = [reqs EXCEPT ![i].r = l.r,
                             ![i].out = w.out,
                             ![i].pc = IF w.stop THEN "done" ELSE "scan"]
  /\ UNCHANGED readVars
  /\ UNCHANGED listVars
  /\ UNCHANGED <<kind, hist, req, resp>>

NextTwo == \E i \in Requests : TwoOpen(i) \/ TwoScan(i) \/ TwoLines(i)

SpecTwo == InitTwo /\ [][NextTwo]_vars

\* ------------------------------------------------- the Content-Disposition
\* The values ExtractParams lets through, and counts and file sizes at and
\* around the thresholds.
Dispositions == {"", "inline", "attachment"}
DispositionCounts ==
  {-1, 0, 1, attachLineCount - 1, attachLineCount, attachLineCount + 1}
DispositionSizes ==
  {0, 1, attachFileSize - 1, attachFileSize, attachFileSize + 1}

\* writeLines has opened the file, given here by what file.Stat answers.
InitDisposition ==
  /\ file \in [stat : {"nil", "ESTAT"}, size : DispositionSizes]
  /\ props \in [paramContentDisposition : Dispositions,
                 paramCount : DispositionCounts]
  /\ ReadIdle("disposition")
  /\ lreq = [name |-> <<>>, filter |-> <<>>]
  /\ ListIdle("idle")
  /\ OtherIdle

\* writeLines: selectContentDisposition(props, writer, file).
SelectContentDisposition ==
  /\ pc = "disposition"
  /\ resp' = [resp EXCEPT !.disposition = selectContentDisposition(props, file)]
  /\ pc' = "selected"
  /\ UNCHANGED <<file, props, chunker, r, out, retErr, exit, reads, batches,
                 ioFailed, splitFailed>>
  /\ UNCHANGED listVars
  /\ UNCHANGED <<kind, hist, reqs, req>>

NextDisposition == SelectContentDisposition

SpecDisposition == InitDisposition /\ [][NextDisposition]_vars

\* --------------------------------------------------- the request parameters
\* The keys a request can carry, "debug" standing for any unknown key.
Keys == {"content-disposition", "count", "filter", "name", "debug"}
\* Values of the count parameter: digits, signs and letters.
CountValues == SeqsUpTo({DIGIT0 + 1, DASH, 120}, MaxCountLen)
\* Values of the name parameter: a file in the root, and a way out of it.
NameValues == {<<97>>, <<DOT, DOT, SLASH, 97>>}

\* request.Form after ParseForm: the keys present and the first value of
\* each (an absent key has its field at the empty value).
Forms ==
  {f \in [present : SUBSET Keys,
          disposition : {"", "inline", "attachment", "other"},
          count : CountValues,
          filter : {<<>>, <<DASH, 97>>},
          name : NameValues \cup {<<>>}] :
     /\ "content-disposition" \notin f.present => f.disposition = ""
     /\ "count" \notin f.present => f.count = <<>>
     /\ "filter" \in f.present <=> f.filter # <<>>
     /\ "name" \in f.present <=> f.name # <<>>}

\* A read request with any form, for a small regular file (for nothing when
\* the request has no name); Handler has made its properties.
InitRequest ==
  /\ req \in {[form |-> f, left |-> f.present] : f \in Forms}
  /\ kind = IF "name" \in req.form.present THEN "regular" ELSE "missing"
  /\ file \in IF kind = "regular" THEN {<<>>, <<97, NL>>} ELSE {<<>>}
  /\ props = NewProperties(1)
  /\ ReadIdle("extract")
  /\ lreq = [name |-> <<>>, filter |-> <<>>]
  /\ ListIdle("idle")
  /\ hist = <<>>
  /\ reqs = <<>>
  /\ resp = NoResponse

\* ExtractParams: one round of the loop over request.Form.  Go visits the
\* keys of a map in no fixed order; an error ends ExtractParams and Handler.
ExtractNextKey ==
  /\ pc = "extract"
  /\ \E key \in req.left :
       LET res == ExtractKey(props, key, req.form)
       IN /\ props' = res.props
          /\ req' = [req EXCEPT !.left = @ \ {key}]
          /\ pc' = IF res.err = "nil" THEN "extract" ELSE "done"
          /\ retErr' = res.err
          /\ exit' = IF res.err = "nil" THEN exit ELSE "params"
  /\ UNCHANGED <<file, chunker, r, out, reads, batches, ioFailed, splitFailed>>
  /\ UNCHANGED listVars
  /\ UNCHANGED <<kind, hist, reqs, resp>>

\* ExtractParams returns nil: Handler goes on to checkRegularFile.
ExtractReturn ==
  /\ pc = "extract"
  /\ req.left = {}
  /\ pc' = "check"
  /\ UNCHANGED <<file, props, chunker, r, out, retErr, exit, reads, batches,
                 ioFailed, splitFailed>>
  /\ UNCHANGED listVars
  /\ UNCHANGED otherVars

NextRequest ==
  \/ ExtractNextKey \/ ExtractReturn \/ CheckRegularFile
  \/ Open \/ OpenStatFails \/ Scan \/ Lines \/ HandlerReturn

SpecRequest == InitRequest /\ [][NextRequest]_vars

\* ------------------------------------------------------- a file that grows
\* A read request for the whole of a short file, which another process goes
\* on appending to.
InitAppend ==
  /\ file \in SeqsUpTo(Alphabet, MaxLenTwo)
  /\ \E cs \in ChunkSizes : props = ExtractParams(<<>>, 0, cs)
  /\ ReadIdle("open")
  /\ lreq = [name |-> <<>>, filter |-> <<>>]
  /\ ListIdle("idle")
  /\ OtherIdle

\* Another process appends one byte to the file; hist keeps what was
\* appended when.  The open handle sees the new length at its next ReadAt.
AppendByte ==
  /\ pc \in {"open", "scan", "lines"}
  /\ Len(hist) < MaxAppend
  /\ \E b \in Alphabet :
       /\ file' = Append(file, b)
       /\ hist' = Append(hist, [op |-> "append", byte |-> b, at |-> pc])
  /\ UNCHANGED <<props, chunker, r, pc, out, retErr, exit, reads, batches,
                 ioFailed, splitFailed>>
  /\ UNCHANGED listVars
  /\ UNCHANGED <<kind, reqs, req, resp>>

NextAppend == Open \/ OpenStatFails \/ AppendByte \/ Scan \/ Lines

SpecAppend == InitAppend /\ [][NextAppend]_vars

\* ------------------------------------------------------- the file handle
\* A read request as in Init, for a short file; hist keeps what writeLines
\* does with the file handle.
InitClose ==
  /\ file \in SeqsUpTo(Alphabet, MaxLenLoop)
  /\ \E f \in Filters, n \in Counts, cs \in ChunkSizes :
       props = ExtractParams(f, n, cs)
  /\ ReadIdle("open")
  /\ lreq = [name |-> <<>>, filter |-> <<>>]
  /\ ListIdle("idle")
  /\ OtherIdle

\* writeLines: os.Open fails, writeLines returns the error; there is no file
\* and no deferred Close.
OpenFails ==
  /\ pc = "open"
  /\ pc' = "returned"
  /\ retErr' = "EOPEN"
  /\ exit' = "open"
  /\ UNCHANGED <<file, props, chunker, r, out, reads, batches, ioFailed, splitFailed>>
  /\ UNCHANGED listVars
  /\ UNCHANGED otherVars

\* Mutant of WriteLinesReturn: the file is closed only when writeLines
\* returns no error.
WriteLinesReturn_leaks ==
  /\ pc = "done"
  /\ pc' = "returned"
  /\ hist' = IF retErr = "nil"
               THEN Append(hist, [op |-> "close", reads |-> Len(reads)])
               ELSE hist
  /\ UNCHANGED <<file, props, chunker, r, out, retErr, exit, reads, batches,
                 ioFailed, splitFailed>>
  /\ UNCHANGED listVars
  /\ UNCHANGED <<kind, reqs, req, resp>>

\* writeLines returns after os.Open succeeded (from the failure of
\* newReverser or from the end of the loop): the deferred file.Close() runs.
WriteLinesReturn ==
  /\ pc = "done"
  /\ pc' = "returned"
  /\ hist' = Append(hist, [op |-> "close", reads |-> Len(reads)])
  /\ UNCHANGED <<file, props, chunker, r, out, retErr, exit, reads, batches,
                 ioFailed, splitFailed>>
  /\ UNCHANGED listVars
  /\ UNCHANGED <<kind, reqs, req, resp>>

NextClose ==
  Open \/ OpenFails \/ OpenStatFails \/ Scan \/ Lines \/ WriteLinesReturn

SpecClose == InitClose /\ [][NextClose]_vars

\* ----------------------------------------------------------------- claims
\* The lines of a file by a single forward split at newline bytes alone: a
\* line ends at each newline, the bytes after the last newline (if any) are
\* a last, unterminated line.  Every other byte is content.
RECURSIVE SplitNL(_)
SplitNL(f) ==
  IF f = <<>> THEN <<>>
  ELSE LET j == IndexNL(f, 1)
       IN IF j = 0 THEN <<f>>
          ELSE <<SubSeq(f, 1, j - 1)>> \o SplitNL(SubSeq(f, j + 1, Len(f)))

\* The request asks for the whole file: no filter, no count.
WholeFile == props.filterText = <<>> /\ props.paramCount <= 0

\* The traversal ran to its end and ended cleanly.
CleanEnd == pc = "done" /\ ~ioFailed /\ retErr = "nil"

\* C1: a full traversal that ended without error, its batches concatenated
\* and reversed, gives exactly the lines of the file in forward order.
C1_FullTraversalIsFileLines ==
  (CleanEnd /\ WholeFile) => Reverse(Texts(out)) = SplitNL(file)

\* C2: the lines of a full traversal that ended without error are the same
\* as those of a full traversal of the same file with any other chunk size
\* (that ends without error).
C2_ChunkSizeIndependent ==
  (CleanEnd /\ WholeFile) =>
    \A cs \in ChunkSizes :
      FullTraversal(file, cs).err = "nil" =>
        Texts(FullTraversal(file, cs).lines) = Texts(out)

\* C3: at every point of a traversal, however it goes on or ends, the lines
\* delivered so far are in strictly decreasing file position.
C3_StrictlyDecreasingPositions ==
  \A i, j \in 1..Len(out) : i < j => out[i].pos > out[j].pos

\* C3 witness: a traversal with chunk size 1 ended with three or more lines
\* delivered (so from more than one batch).
C3_Witness ==
  pc = "done" /\ props.chunkSize = 1 /\ WholeFile /\ Len(out) >= 3

\* C4: every delivered line is a whole line of the file: it begins at offset 0
\* or right after a newline byte, it ends right before a newline byte or at
\* the end of the file, and its bytes are the bytes of the file in between.
C4_NoFragments ==
  \A i \in 1..Len(out) :
    LET b == out[i].pos
        e == out[i].pos + Len(out[i].text)
    IN /\ (b = 0 \/ file[b] = NL)
       /\ (e = Len(file) \/ (e < Len(file) /\ file[e + 1] = NL))
       /\ out[i].text = SubSeq(file, b + 1, e)

\* C5: a caller that stops as soon as it has K lines (no filter, every read
\* succeeding) has written exactly the first K lines of the full traversal
\* of the same file with the same chunk size (all of them when the full
\* traversal has no more than K).
C5_EarlyStopIsPrefix ==
  (pc = "done" /\ ~ioFailed /\ props.filterText = <<>> /\ props.paramCount > 0) =>
    LET full == FullTraversal(file, props.chunkSize).lines
    IN out = SubSeq(full, 1, Min(props.paramCount, Len(full)))

\* C5 witness: the caller stopped at K = 2 lines of a file whose full
\* traversal gives more.
C5_Witness ==
  /\ pc = "done" /\ exit = "count" /\ ~ioFailed
  /\ props.filterText = <<>> /\ props.paramCount = 2
  /\ Len(FullTraversal(file, props.chunkSize).lines) > 2

\* The caller asked for K lines, 0 < K < M, of a file whose full traversal
\* gives M lines, without filter, and writeLines has returned with every
\* read succeeding.
EarlyStopCase ==
  /\ pc = "done" /\ ~ioFailed /\ props.filterText = <<>>
  /\ props.paramCount > 0
  /\ props.paramCount < Len(FullTraversal(file, props.chunkSize).lines)

\* C6 as claimed: stopping after K < M lines always costs strictly fewer
\* positional reads than the full traversal.
C6_StrictlyFewerReads ==
  EarlyStopCase => Len(reads) < FullTraversal(file, props.chunkSize).reads

\* C6 as amended: stopping after K < M lines costs exactly the reads of the
\* full traversal up to the batch that delivers the K-th line, so never more
\* than the full traversal, and strictly fewer exactly when the K-th line
\* is delivered before the full traversal's last read.
C6_ReadsUpToKthLine ==
  EarlyStopCase =>
    LET full == FullTraversal(file, props.chunkSize)
    IN /\ Len(reads) = full.readsAt[props.paramCount]
       /\ Len(reads) <= full.reads

\* C6 witness: an early stop that did save reads.
C6_Witness ==
  EarlyStopCase /\ Len(reads) < FullTraversal(file, props.chunkSize).reads

\* The lines of the full traversal that the filter of the request admits,
\* each with the number of reads issued when it is delivered.
Qualifying ==
  LET full == FullTraversal(file, props.chunkSize)
      tagged == [i \in 1..Len(full.lines) |->
                   [line |-> full.lines[i], at |-> full.readsAt[i]]]
  IN SelectSeq(tagged, LAMBDA t : FilterAllowsEntry(props, t.line.text))

ClaimedAdmits(filter, entry) ==
  IF filter = <<>> THEN TRUE
  ELSE IF filter[1] = DASH THEN ~Contains(entry, Tail(filter))
  ELSE Contains(entry, filter)

\* The filter semantics as amended: a filter that is only "-" has an empty
\* text and admits every entry.
AmendedAdmits(filter, entry) ==
  IF filter = <<>> \/ filter = <<DASH>> THEN TRUE
  ELSE IF filter[1] = DASH THEN ~Contains(entry, Tail(filter))
  ELSE Contains(entry, filter)

C9_TerminalError ==
  (pc = "done" /\ exit = "scan") =>
    /\ retErr # "EOF"
    /\ retErr = "nil" <=> (peekEOF(chunker) /\ ~ioFailed /\ ~splitFailed)
    /\ ioFailed => retErr = "EIO"
    /\ splitFailed => retErr = "ErrTooLong"

\* C9 witness: the loop ended on the chunk reader's io.EOF after two or more
\* reads, and err() is nil.
C9_Witness ==
  /\ pc = "done" /\ exit = "scan"
  /\ r.lastError = "EOF" /\ retErr = "nil" /\ Len(reads) >= 2

\* C10: on an empty file no positional read is issued, no batch is taken
\* (the first scan() returns false), no line is written, and err() is nil.
C10_EmptyFile ==
  file = <<>> =>
    /\ pc # "lines"
    /\ reads = <<>> /\ batches = 0 /\ out = <<>>
    /\ (pc = "done" /\ exit = "scan") => retErr = "nil"

\* C10 witness: the traversal of an empty file has ended through scan().
C10_Witness ==
  file = <<>> /\ pc = "done" /\ exit = "scan"

\* C11: a scan() whose chunk read returned an I/O error other than io.EOF
\* returns false, and from then on no batch is taken, every scan() returns
\* false without calling the chunk reader (and without a positional read),
\* and err() is that error after every call.
C11_IOErrorTerminal ==
  \A i \in 1..Len(hist) :
    (hist[i].op = "scan" /\ hist[i].readErr = "EIO") =>
      /\ ~hist[i].ok
      /\ hist[i].err = "EIO"
      /\ \A j \in (i + 1)..Len(hist) :
           /\ hist[j].op \in {"scan", "err"}
           /\ hist[j].op = "scan" =>
                (~hist[j].ok /\ hist[j].readErr = "none" /\ ~hist[j].readAt)
           /\ hist[j].err = "EIO"

\* C11 witness: the third or a later read failed after a batch was taken,
\* and the caller has called scan() twice more and then err().
C11_Witness ==
  /\ Len(hist) >= 4
  /\ hist[Len(hist)].op = "err"
  /\ hist[Len(hist) - 1].op = "scan" /\ hist[Len(hist) - 2].op = "scan"
  /\ hist[Len(hist) - 3].op = "scan" /\ hist[Len(hist) - 3].readErr = "EIO"
  /\ batches >= 1 /\ Len(reads) >= 2

\* C12: once a read call has returned an error other than io.EOF, every
\* later read call returns that same error and issues no positional read.
C12_StickyError ==
  \A i, j \in 1..Len(hist) :
    (i < j /\ hist[i].err \notin {"nil", "EOF"}) =>
      (hist[j].err = hist[i].err /\ ~hist[j].readAt)

\* C13: a read call on an exhausted reader (empty file, or nextOffset
\* negative) returns zero bytes and io.EOF, issues no positional read and
\* leaves nextOffset as it is; every later call finds the reader exhausted.
C13_ExhaustionPermanent ==
  /\ \A i \in 1..Len(hist) :
       hist[i].atEOF =>
         /\ hist[i].n = 0 /\ hist[i].err = "EOF" /\ ~hist[i].readAt
         /\ hist[i].offAfter = hist[i].off
         /\ \A j \in i..Len(hist) : hist[j].atEOF
  /\ (Len(hist) > 0 /\ hist[Len(hist)].atEOF) => peekEOF(chunker)
  /\ \A i \in 1..Len(hist) : hist[i].offAfter < 0 => chunker.nextOffset < 0

\* C13 witness: a file of two or more chunks was read to its start and read
\* was called twice more.
C13_Witness ==
  /\ Len(hist) >= 4 /\ Len(reads) >= 2 /\ ~ioFailed
  /\ hist[Len(hist)].atEOF /\ hist[Len(hist) - 1].atEOF

\* The lines of chunk data d in front of its first line of MaxScanTokenSize
\* bytes or more, as the scanner hands them out (a carriage return at the end
\* of a line dropped).
LinesBeforeTooLong(d) ==
  LET ls == SplitNL(d)
      k == CHOOSE n \in 1..Len(ls) :
             /\ Len(ls[n]) >= MaxScanTokenSize
             /\ \A m \in 1..(n - 1) : Len(ls[m]) < MaxScanTokenSize
  IN [i \in 1..(k - 1) |-> dropCR(ls[i])]

\* C14: when the splitter fails on a chunk, lines() still hands out the lines
\* of that chunk in front of the failing one (less the first, held back as
\* the suffix, unless the chunk starts the file), most recent first; the
\* next scan() returns false without calling the chunk reader, and err()
\* is the splitting error.
C14_SplitErrorLocal ==
  [][/\ (pc = "lines" /\ WholeFile /\ ScanLines(r.chunk).err # "nil") =>
          LET pre == LinesBeforeTooLong(r.chunk)
              kept == IF peekEOF(chunker) \/ pre = <<>> THEN pre ELSE Tail(pre)
          IN /\ Texts(out') = Texts(out) \o Reverse(kept)
             /\ r'.lastError = "ErrTooLong"
     /\ (pc = "scan" /\ splitFailed) =>
          /\ pc' = "done" /\ exit' = "scan"
          /\ reads' = reads /\ chunker' = chunker
          /\ retErr' = "ErrTooLong"]_vars

\* C14 witness: the splitter failed on the only chunk taken, a line in front
\* of the failing one was written, and the next scan() has ended the loop.
C14_Witness ==
  /\ pc = "done" /\ exit = "scan" /\ splitFailed
  /\ batches = 1 /\ Len(out) >= 1 /\ retErr = "ErrTooLong"

\* C19: every line written is the bytes of the file from the line's start
\* to the next newline byte (or the end of the file), every byte other than
\* the newline kept.
C19_NewlineOnly ==
  \A i \in 1..Len(out) :
    LET j == IndexNL(file, out[i].pos + 1)
    IN out[i].text =
         SubSeq(file, out[i].pos + 1, IF j = 0 THEN Len(file) ELSE j - 1)

\* The offsets at which the lines of file f start.
LineStarts(f) ==
  IF f = <<>> THEN {}
  ELSE {0} \cup {j \in 1..(Len(f) - 1) : f[j] = NL}

\* The line of f that starts at offset b, without its newline.
LineAt(f, b) ==
  LET j == IndexNL(f, b + 1)
  IN SubSeq(f, b + 1, IF j = 0 THEN Len(f) ELSE j - 1)

\* The number of chunks of size cs the line of f at offset b lies in, its
\* newline included.
ChunksSpanned(f, b, cs) ==
  LET j == IndexNL(f, b + 1)
      lastByte == IF j = 0 THEN Len(f) - 1 ELSE j - 1
  IN (lastByte \div cs) - (b \div cs) + 1

\* C20: after a traversal of the whole file with every read succeeding,
\* every line longer than the chunk size that lies in three or more chunks
\* has been written exactly once, and whole.
C20_LongLineWhole ==
  (pc = "done" /\ exit = "scan" /\ ~ioFailed /\ WholeFile) =>
    \A b \in LineStarts(file) :
      (Len(LineAt(file, b)) > props.chunkSize
         /\ ChunksSpanned(file, b, props.chunkSize) >= 3) =>
        /\ Cardinality({i \in 1..Len(out) : out[i].pos = b}) = 1
        /\ \A i \in 1..Len(out) :
             out[i].pos = b => out[i].text = LineAt(file, b)

\* The elements of a name that are neither empty, "." nor "..".
PlainElems(name) ==
  SelectSeq(SplitSlash(name),
            LAMBDA c : c # <<>> /\ c # <<DOT>> /\ c # <<DOT, DOT>>)

\* The name has a ".." element.
HasDotDot(name) ==
  \E i \in 1..Len(SplitSlash(name)) : SplitSlash(name)[i] = <<DOT, DOT>>

\* root followed by /element for each of the elements.
RECURSIVE Under(_, _)
Under(root, elems) ==
  IF elems = <<>> THEN root
  ELSE Under(root \o <<SLASH>> \o Head(elems), Tail(elems))

\* C15: both checks accept a name only if the cleaned join is the root or
\* lies under root/; a name that only climbs with ".." is rejected; a name
\* without ".." is accepted and rootedPath is the root followed by the
\* name's plain elements (doubled slashes and "." gone); after any accepted
\* call rootedPath is the root or under root/ and has no empty, "." or ".."
\* element after the root.
C15_PathContainment ==
  \A i \in 1..Len(hist) :
    LET h == hist[i]
        name == lreq.name
        root == lreq.root
    IN /\ h.err = "nil" =>
            /\ h.rootedPath = root \/ HasPrefix(h.rootedPath, root \o <<SLASH>>)
            /\ h.rootedPath = pathJoin(root, name)
            /\ h.rootedPath = Under(root, PlainElems(SubSeq(h.rootedPath,
                                 Len(root) + 1, Len(h.rootedPath))))
       /\ h.err # "nil" => h.rootedPath = <<>>
       /\ (HasDotDot(name) /\ PlainElems(name) = <<>>) => h.err # "nil"
       /\ ~HasDotDot(name) =>
            (h.err = "nil" /\ h.rootedPath = Under(root, PlainElems(name)))

\* C15 witness: both checks have rejected the name "../aa" under the root
\* "/a": the cleaned join "/aa" starts with the root but is not under root/.
C15_Witness ==
  /\ Len(hist) = 2
  /\ lreq.name = <<DOT, DOT, SLASH, 97, 97>>
  /\ lreq.root = <<SLASH, 97>>
  /\ hist[1].err # "nil" /\ hist[2].err # "nil"

\* C16: when the rooted path is not a regular file itself (a directory, a
\* symbolic link, a special file, or nothing), the handler answers with an
\* error, never reaches os.Open, issues no read and writes no line.
C16_RegularFilesOnly ==
  kind # "regular" =>
    /\ pc \in {"check", "done"}
    /\ out = <<>> /\ reads = <<>> /\ chunker = NoChunker
    /\ pc = "done" => (exit = "check" /\ retErr # "nil")

\* C17: at every moment each request has written a prefix of the lines it
\* writes when running alone, all of them once it is done; and every step
\* leaves the chunk reader, reverser, properties, file and output of all
\* requests but one unchanged.
C17_RequestsIndependent ==
  /\ [](\A i \in DOMAIN reqs :
          LET alone == writeLines(reqs[i].file, reqs[i].props)
          IN /\ Len(reqs[i].out) <= Len(alone)
             /\ reqs[i].out = SubSeq(alone, 1, Len(reqs[i].out))
             /\ reqs[i].pc = "done" => reqs[i].out = alone)
  /\ [][\E i \in DOMAIN reqs :
          \A j \in DOMAIN reqs \ {i} : reqs'[j] = reqs[j]]_vars

\* C17 witness: both requests are done, each wrote two or more lines, and
\* they wrote different ones.
C17_Witness ==
  /\ DOMAIN reqs = Requests
  /\ \A i \in Requests : reqs[i].pc = "done" /\ Len(reqs[i].out) >= 2
  /\ reqs[1].out # reqs[2].out

\* C18: every step issues at most one positional read, and a step that
\* issues one is a scan() call: newReverser, lines() and err() issue none.
C18_PullDriven ==
  [][/\ Len(reads') <= Len(reads) + 1
     /\ reads' # reads => hist'[Len(hist')].op = "scan"]_vars

\* C18 witness: construction, two batches and a call of err() have happened,
\* with two or more positional reads.
C18_Witness ==
  /\ Len(hist) > 0 /\ hist[Len(hist)].op = "err"
  /\ batches >= 2 /\ Len(reads) >= 2

\* C21: when the traversal ended with a terminal error that is not nil, the
\* status of the handler's response is a server error, 500 to 599.
C21_ServerErrorStatus ==
  (resp.status # 0 /\ exit \in {"scan", "count"} /\ retErr # "nil") =>
    (resp.status >= 500 /\ resp.status <= 599)

IsInteger(v) ==
  \/ /\ Len(v) >= 1
     /\ \A i \in 1..Len(v) : v[i] \in DIGIT0..DIGIT9
  \/ /\ Len(v) >= 2 /\ v[1] \in {DASH, PLUS}
     /\ \A i \in 2..Len(v) : v[i] \in DIGIT0..DIGIT9

\* The request carries an unknown key, a count that is not empty and not an
\* integer, a content-disposition other than empty, inline or attachment,
\* or a name that leaves the root.
BadRequest ==
  \/ "debug" \in req.form.present
  \/ "count" \in req.form.present /\ req.form.count # <<>>
       /\ ~IsInteger(req.form.count)
  \/ "content-disposition" \in req.form.present
       /\ req.form.disposition \notin {"", "inline", "attachment"}
  \/ "name" \in req.form.present /\ req.form.name = <<DOT, DOT, SLASH, 97>>

\* C23: a bad request never gets past ExtractParams: the handler never
\* reaches checkRegularFile or os.Open, issues no read, writes no line, and
\* ends with an error and status 400.
C23_BadRequestRejected ==
  BadRequest =>
    /\ pc \in {"extract", "done"}
    /\ chunker = NoChunker /\ reads = <<>> /\ out = <<>>
    /\ pc = "done" => (exit = "params" /\ retErr # "nil")
    /\ resp.status # 0 => (resp.status = 400 /\ resp.errorText)

\* C23 witness: a request with a name inside the root, a filter and an
\* unknown key has been answered with 400 after the name and the filter
\* were taken.
C23_Witness ==
  /\ req.form.present = {"name", "filter", "debug"}
  /\ req.form.name = <<97>>
  /\ req.left = {}
  /\ props.rootedPath = Root \o <<SLASH, 97>>
  /\ resp.status = 400


\* C24: before the first read, the offset newChunkReader computed is 0 for
\* an empty file, L - C for a file of a whole number of chunks, L - (L mod C)
\* otherwise; it is a non-negative multiple of C and, for L > 0, below L.
C24_FirstOffset ==
  hist = <<>> =>
    LET L == Len(file)
        C == props.chunkSize
        off == chunker.nextOffset
    IN /\ L = 0 => off = 0
       /\ (L > 0 /\ L % C = 0) => off = L - C
       /\ (L > 0 /\ L % C # 0) => off = L - (L % C)
       /\ off >= 0 /\ off % C = 0
       /\ L > 0 => (off < L /\ off + C >= L)

\* C24 witness: a file of two whole chunks, the first read to be at the
\* start of the second.
C24_Witness ==
  /\ hist = <<>>
  /\ props.chunkSize = 2 /\ Len(file) = 4
  /\ chunker.nextOffset = 2


\* C25: every ReadAt the chunk reader has issued is at an offset that is
\* not negative, a multiple of the chunk size and below the file length;
\* and when the chunk size is the length of a non-empty file, no read is at
\* another offset than 0, there is at most one read, and a traversal that
\* ended without I/O error made exactly one read and one batch.
C25_ReadOffsets ==
  /\ \A i \in 1..Len(reads) :
       /\ reads[i].off >= 0
       /\ reads[i].off % props.chunkSize = 0
       /\ reads[i].off < Len(file)
  /\ (Len(file) # 0 /\ props.chunkSize = Len(file)) =>
       /\ \A i \in 1..Len(reads) : reads[i].off = 0
       /\ Len(reads) <= 1
       /\ (pc = "done" /\ ~ioFailed) => (Len(reads) = 1 /\ batches = 1)

\* C25 witness: a traversal of a file of two chunks has ended, having read
\* at 2 and then at 0.
C25_Witness ==
  /\ pc = "done" /\ ~ioFailed
  /\ props.chunkSize = 2 /\ Len(file) = 4
  /\ Len(reads) = 2 /\ reads[1].off = 2 /\ reads[2].off = 0


\* C26: a call of read that reached ReadAt left nextOffset lower by exactly
\* the chunk size, whatever it read and returned; a call that returned from
\* the check for exhaustion or for a kept error left it unchanged; between
\* calls it does not move, so it never increases.
C26_OffsetStep ==
  /\ \A i \in 1..Len(hist) :
       /\ hist[i].readAt => hist[i].offAfter = hist[i].off - props.chunkSize
       /\ ~hist[i].readAt => hist[i].offAfter = hist[i].off
       /\ i < Len(hist) => hist[i + 1].off = hist[i].offAfter
  /\ hist # <<>> => chunker.nextOffset = hist[Len(hist)].offAfter

\* C26 witness: the first read of a four-byte file in chunks of two failed
\* after one byte and moved the offset from 2 down to 0; the call after it
\* returned the kept error without reading and left the offset at 0.
C26_Witness ==
  /\ props.chunkSize = 2 /\ Len(file) = 4
  /\ Len(hist) = 2
  /\ hist[1].readAt /\ hist[1].n = 1 /\ hist[1].err = "EIO"
  /\ hist[1].off = 2 /\ hist[1].offAfter = 0
  /\ ~hist[2].readAt /\ hist[2].err = "EIO"
  /\ hist[2].off = 0 /\ hist[2].offAfter = 0


\* The call of scan() recorded at i read at least one byte and ReadAt
\* returned io.EOF with it.
DataWithEOF(i) ==
  /\ hist[i].op = "scan" /\ hist[i].readAt
  /\ hist[i].ioErr = "EOF" /\ hist[i].n > 0

\* The texts of the candidate lines bufio.Scanner finds in a chunk.
CandidateTexts(chunk) ==
  [k \in 1..Len(ScanLines(chunk).tokens) |-> ScanLines(chunk).tokens[k].text]

\* C27: a scan() whose ReadAt returned bytes together with io.EOF got them
\* from the chunk reader with a nil error and returned true, its chunk
\* begins with those bytes; the lines() after it split that chunk and
\* delivered its candidate lines (all but the held first one when more of the
\* file is to come); and exhaustion is reported only by a later scan().
C27_DataWithEOF ==
  \A i \in 1..Len(hist) :
    DataWithEOF(i) =>
      /\ hist[i].ok /\ hist[i].readErr = "nil" /\ hist[i].err = "nil"
      /\ SubSeq(hist[i].chunk, 1, hist[i].n)
           = SubSeq(file, hist[i].off + 1, hist[i].off + hist[i].n)
      /\ i < Len(hist) =>
           /\ hist[i + 1].op = "lines"
           /\ hist[i + 1].chunk = hist[i].chunk
           /\ Reverse(Texts(hist[i + 1].lines))
                = IF hist[i + 1].atEOF \/ CandidateTexts(hist[i].chunk) = <<>>
                    THEN CandidateTexts(hist[i].chunk)
                    ELSE Tail(CandidateTexts(hist[i].chunk))
      /\ \A j \in (i + 1)..Len(hist) :
           (hist[j].op = "scan" /\ hist[i].off = 0) =>
             ~hist[j].ok /\ hist[j].readErr \in {"EOF", "none"}

\* C27 witness: a three-byte file read in one chunk of four: ReadAt gave
\* three bytes and io.EOF, scan() returned true, lines() delivered the line,
\* and the scan() after it reported the end.
C27_Witness ==
  /\ Len(file) = 3 /\ props.chunkSize = 4
  /\ Len(hist) = 4
  /\ DataWithEOF(2) /\ hist[2].n = 3 /\ hist[2].ok
  /\ hist[3].op = "lines" /\ Len(hist[3].lines) = 1
  /\ hist[4].op = "scan" /\ ~hist[4].ok /\ hist[4].readErr = "EOF"


\* C28: a call of lines() on the chunk read at offset 0, and only there,
\* finds the chunk reader exhausted; it holds nothing back and delivers every
\* candidate line of the chunk, the first included.  On any other chunk with
\* a candidate line it delivers all but the first one and holds that one (a
\* newline for an empty one) as the suffix.
C28_SuffixHeld ==
  \A i \in 1..Len(hist) :
    hist[i].op = "lines" =>
      LET cand == CandidateTexts(hist[i].chunk)
          delivered == Reverse(Texts(hist[i].lines))
      IN /\ hist[i].atEOF <=> hist[i].off = 0
         /\ hist[i].atEOF => (hist[i].suffix = <<>> /\ delivered = cand)
         /\ (~hist[i].atEOF /\ cand # <<>>) =>
              /\ delivered = Tail(cand)
              /\ hist[i].suffix = IF cand[1] = <<>> THEN <<NL>> ELSE cand[1]
         /\ i = Len(hist) => r.lineSuffix = hist[i].suffix

\* C28 witness: a four-byte file in chunks of two: lines() on the chunk at
\* offset 2 held its only candidate line and delivered nothing; lines() on
\* the chunk at offset 0 delivered two lines and held nothing.
C28_Witness ==
  /\ Len(file) = 4 /\ props.chunkSize = 2
  /\ Len(hist) = 5
  /\ hist[3].op = "lines" /\ hist[3].off = 2 /\ ~hist[3].atEOF
  /\ hist[3].lines = <<>> /\ Len(hist[3].suffix) = 1
  /\ hist[3].suffix # <<NL>>
  /\ hist[5].op = "lines" /\ hist[5].off = 0 /\ hist[5].atEOF
  /\ Len(hist[5].lines) = 2 /\ hist[5].suffix = <<>>
  /\ r.lineSuffix = <<>>


\* Every empty line of the file has been delivered exactly once, at its
\* position, as an empty line.
EmptyLinesDelivered ==
  \A b \in LineStarts(file) :
    LineAt(file, b) = <<>> =>
      /\ Cardinality({i \in 1..Len(out) : out[i].pos = b}) = 1
      /\ \A i \in 1..Len(out) : out[i].pos = b => out[i].text = <<>>

\* The full traversal of "a\n\nb\n" with chunk size 1.
EmptyLineExample == Texts(FullTraversal(<<97, NL, NL, 98, NL>>, 1).lines)

Unterminated == file # <<>> /\ file[Len(file)] # NL

\* The full traversals of "a\nb\nc" with the chunk sizes 1 to 6.
UnterminatedExample ==
  {Texts(FullTraversal(<<97, NL, 98, NL, 99>>, cs).lines) : cs \in 1..6}

\* C30: after the traversal of a whole file that does not end in a newline,
\* every read succeeding, the lines delivered and the final error are those
\* of the full traversal of the same bytes followed by one newline, with the
\* same chunk size; and "a\nb\nc" gives "c", "b", "a" with any chunk size.
C30_TrailingNewlineOptional ==
  /\ (pc = "done" /\ exit = "scan" /\ ~ioFailed /\ WholeFile /\ Unterminated) =>
       LET terminated == FullTraversal(Append(file, NL), props.chunkSize)
       IN /\ Texts(terminated.lines) = Texts(out)
          /\ terminated.err = retErr
  /\ UnterminatedExample = {<<<<99>>, <<98>>, <<97>>>>}

\* C30 witness: "a\na" with chunk size 3, so that the terminated form has a
\* chunk more, has been traversed and gave two lines.
C30_Witness ==
  /\ file = <<97, NL, 97>> /\ props.chunkSize = 3
  /\ pc = "done" /\ exit = "scan" /\ ~ioFailed /\ WholeFile
  /\ Texts(out) = <<<<97>>, <<97>>>>
  /\ FullTraversal(Append(file, NL), 3).reads = Len(reads) + 1


\* C31: once scan() has returned false, a further call of scan() or err()
\* leaves the reverser (error, chunk, suffix) and the chunk reader (offset)
\* as they were and issues no read; scan() returns false again without
\* calling the chunk reader, and err() returns the same value as before.
C31_DoneAbsorbing ==
  [][pc = "stopped" =>
       /\ pc' = "stopped"
       /\ r' = r /\ chunker' = chunker /\ reads' = reads
       /\ LET h == hist'[Len(hist')]
          IN /\ h.op \in {"scan", "err"}
             /\ h.op = "scan" => (~h.ok /\ ~h.readAt /\ h.readErr = "none")
             /\ h.err = reverserErr(r)
             /\ \A i \in 1..Len(hist) :
                  (hist[i].op \in {"scan", "err"} /\ ~(hist[i].op = "scan" /\ hist[i].ok)
                     /\ \A j \in i..Len(hist) : hist[j].op # "lines")
                    => h.err = hist[i].err]_vars

\* C31 witness: after lines were delivered scan() has returned false, err()
\* was called, and scan() has returned false twice more.
C31_Witness ==
  /\ pc = "stopped" /\ out # <<>>
  /\ Len(hist) >= 4
  /\ hist[Len(hist) - 3].op = "scan" /\ ~hist[Len(hist) - 3].ok
  /\ hist[Len(hist) - 2].op = "err"
  /\ hist[Len(hist) - 1].op = "scan" /\ ~hist[Len(hist) - 1].ok
  /\ hist[Len(hist)].op = "scan" /\ ~hist[Len(hist)].ok


\* C32: with bytes appended to the file after the chunk reader has taken
\* the file length, no read returns a byte from beyond that length, and a
\* traversal that ended without error has delivered exactly the lines of the
\* content present at construction.
C32_Snapshot ==
  (pc \in {"scan", "lines", "done"} /\ exit # "stat") =>
    LET snapshot == SubSeq(file, 1, chunker.fileLength)
    IN /\ \A i \in 1..Len(reads) :
            reads[i].off + reads[i].n <= chunker.fileLength
       /\ (pc = "done" /\ ~ioFailed /\ retErr = "nil") =>
            Texts(out) = Texts(FullTraversal(snapshot, props.chunkSize).lines)


\* C33: whenever Handler has called http.Error, no line of the body had
\* been written in that request.
C33_ErrorOnCleanResponse ==
  resp.errorText => out = <<>>


\* The header a request has to get, from its content-disposition and count
\* parameters and the size of the file alone (the files here are small).
HeaderDue ==
  IF props.paramContentDisposition = "attachment" THEN "attachment"
  ELSE IF props.paramContentDisposition = "inline" THEN "none"
  ELSE IF props.paramCount > 0 /\ props.paramCount < 10000 THEN "none"
  ELSE IF Len(file) < 100000 THEN "none"
  ELSE "attachment"

\* C34: the Content-Disposition header changes only in the step of
\* writeLines in front of the loop, when no line has been written; that step
\* leaves the header the parameters and the file size ask for; and a step
\* that writes a line, or any later step, leaves the header alone.
C34_HeaderBeforeBody ==
  [][/\ resp'.disposition # resp.disposition => (pc = "open" /\ out = <<>>)
     /\ pc = "open" => (resp'.disposition = HeaderDue /\ out' = <<>>)
     /\ out' # out =>
          (pc = "lines" /\ resp'.disposition = resp.disposition
             /\ resp.disposition = HeaderDue)]_vars

\* C34 witness: a request with content-disposition=attachment and a filter
\* that rejects the only line of the file has ended with the header set and
\* no line written.
C34_Witness ==
  /\ pc = "done" /\ exit = "scan"
  /\ props.paramContentDisposition = "attachment"
  /\ props.filterText # <<>>
  /\ file # <<>> /\ out = <<>>
  /\ resp.disposition = "attachment" /\ resp.status = 200


\* C35: when file.Stat has failed in newChunkReader there is no chunk
\* reader and no reverser, writeLines has returned that error with no line
\* written, and no ReadAt was or will be issued.
C35_ConstructionFailure ==
  exit = "stat" =>
    /\ pc = "done"
    /\ chunker = NoChunker /\ r = NoReverser
    /\ retErr = "ESTAT"
    /\ out = <<>> /\ batches = 0
    /\ reads = <<>>

\* C35 witness: newReverser has failed on a file that has lines.
C35_Witness ==
  /\ exit = "stat" /\ pc = "done"
  /\ Len(file) = MaxLen /\ file[Len(file)] = NL
  /\ retErr = "ESTAT"


\* The chunk reader has been read to exhaustion, every ReadAt succeeding.
ReadToExhaustion ==
  /\ hist # <<>>
  /\ ~hist[Len(hist)].readAt /\ hist[Len(hist)].err = "EOF"
  /\ ~ioFailed

\* C36: when the chunk reader has been read to exhaustion on a file of
\* length L with chunk size C, its reads are in strictly descending offset
\* order, their byte ranges do not overlap, every byte of [0, L) lies in
\* exactly one of them and none reaches beyond L, and every read but the
\* first returned exactly C bytes.
C36_ReadsPartitionFile ==
  ReadToExhaustion =>
    LET L == Len(file)
        C == props.chunkSize
        In(k, i) == reads[i].off <= k /\ k < reads[i].off + reads[i].n
    IN /\ \A i, j \in 1..Len(reads) :
            i < j => /\ reads[i].off > reads[j].off
                     /\ reads[j].off + reads[j].n <= reads[i].off
       /\ \A i \in 1..Len(reads) :
            /\ reads[i].off >= 0 /\ reads[i].off + reads[i].n <= L
            /\ reads[i].n <= C
            /\ i > 1 => reads[i].n = C
       /\ \A k \in 0..(L - 1) :
            Cardinality({i \in 1..Len(reads) : In(k, i)}) = 1
       /\ Len(reads) = (L + C - 1) \div C

\* C36 witness: a file of four bytes read to exhaustion in chunks of three:
\* one byte at offset 3, then three bytes at offset 0.
C36_Witness ==
  /\ ReadToExhaustion
  /\ Len(file) = 4 /\ props.chunkSize = 3
  /\ reads = <<[off |-> 3, n |-> 1], [off |-> 0, n |-> 3]>>


\* The calls of scan() that have returned true.
ScansTrue == Len(SelectSeq(hist, LAMBDA h : h.op = "scan" /\ h.ok))

\* The number of chunks of the file, ceil(L / C).
ChunkCount == (Len(file) + props.chunkSize - 1) \div props.chunkSize

\* C37: scan() never returns true more than ceil(L / C) times; when it has
\* returned false with no read and no split having failed, it had returned
\* true exactly ceil(L / C) times; and a caller that goes on calling gets
\* false from scan() in the end.
C37_ScanLoopTerminates ==
  /\ [](/\ ScansTrue <= ChunkCount
        /\ (pc = "stopped" /\ ~ioFailed /\ ~splitFailed) => ScansTrue = ChunkCount)
  /\ <>(pc = "stopped")

\* C37 witness: a file of three bytes in chunks of two: scan() has returned
\* true twice and then false, without error.
C37_Witness ==
  /\ pc = "stopped" /\ ~ioFailed /\ ~splitFailed
  /\ Len(file) = 3 /\ props.chunkSize = 2
  /\ ScansTrue = 2


\* The calls of file.Close() so far.
Closes == Len(SelectSeq(hist, LAMBDA h : h.op = "close"))

\* C38: the file is closed only by the return of writeLines, never by a
\* step of the chunk reader or the reverser; once it is closed nothing is
\* read and neither of them is used; and when writeLines has returned the
\* file it opened has been closed exactly once (never, if os.Open failed).
C38_ClosedOnceByWriteLines ==
  [][/\ Closes' # Closes =>
          (pc = "done" /\ pc' = "returned" /\ Closes = 0 /\ Closes' = 1
             /\ hist'[Len(hist')].reads = Len(reads))
     /\ Closes > 0 => (reads' = reads /\ chunker' = chunker /\ r' = r)
     /\ pc' = "returned" =>
          /\ Closes' = IF exit' = "open" THEN 0 ELSE 1
          /\ reads' = reads]_vars

\* C38 witness: writeLines has returned from the count limit after two
\* reads, and the file has been closed once.
C38_Witness ==
  /\ pc = "returned" /\ exit = "count"
  /\ Len(reads) = 2 /\ Closes = 1
  /\ hist[Len(hist)].reads = 2


\* C39: a call of lines() that follows a call of lines() with no scan() in
\* between returns the same batch for the same chunk, and leaves the
\* suffix, the error and the chunk reader's offset as the first call did.
C39_LinesIdempotent ==
  \A i \in 1..(Len(hist) - 1) :
    (hist[i].op = "lines" /\ hist[i + 1].op = "lines") =>
      /\ hist[i + 1].lines = hist[i].lines
      /\ hist[i + 1].chunk = hist[i].chunk
      /\ hist[i + 1].suffix = hist[i].suffix
      /\ hist[i + 1].off = hist[i].off
      /\ hist[i + 1].err = hist[i].err
      /\ i + 1 = Len(hist) =>
           (r.chunk = hist[i].chunk /\ r.lineSuffix = hist[i].suffix)

\* C39 witness: lines() was called twice on the middle chunk of "a\na" read
\* in chunks of one; both calls held a newline and returned one line.
C39_Witness ==
  /\ Len(file) = 3 /\ props.chunkSize = 1
  /\ Len(hist) = 6
  /\ hist[5].op = "lines" /\ hist[6].op = "lines"
  /\ Len(hist[6].lines) = 1 /\ hist[6].suffix = <<NL>>


\* C40: the suffix a call of lines() leaves is empty, one newline byte, or
\* bytes without any newline; it is empty when the chunk reader is
\* exhausted; and the chunk of the next scan() that calls the chunk reader
\* is the bytes that call read followed by the suffix.
C40_SuffixShape ==
  \A i \in 1..Len(hist) :
    hist[i].op = "lines" =>
      LET s == hist[i].suffix
      IN /\ \/ s = <<>>
            \/ s = <<NL>>
            \/ \A k \in 1..Len(s) : s[k] # NL
         /\ hist[i].atEOF => s = <<>>
         /\ (i < Len(hist) /\ hist[i + 1].op = "scan"
               /\ hist[i + 1].readErr # "none") =>
              hist[i + 1].chunk =
                (IF hist[i + 1].n = 0 THEN <<>>
                 ELSE SubSeq(file, hist[i + 1].off + 1,
                             hist[i + 1].off + hist[i + 1].n)) \o s

\* C40 witness: lines() has held a line of one letter, and the next scan()
\* read a newline in front of it.
C40_Witness ==
  /\ Len(hist) >= 4
  /\ hist[3].op = "lines" /\ Len(hist[3].suffix) = 1 /\ hist[3].suffix # <<NL>>
  /\ hist[4].op = "scan" /\ hist[4].n = 1 /\ hist[4].ok
  /\ hist[4].chunk = <<NL>> \o hist[3].suffix

====
